---- MODULE Spec2Model ----
(***************************************************************************)
(* Model of the DataStructures teaching corpus.  vector.c, the only file   *)
(* with an implemented function (vector_create), has one operator and one  *)
(* action per C function.  Each of the other eighteen files, whose         *)
(* functions are all stubs, has a table of its functions (X_api), one      *)
(* operator giving what each function returns and stores (X_c) and one     *)
(* action, a call of any of its functions (Call_X).  A client calls the    *)
(* functions in any order with arguments drawn from small sets; last       *)
(* holds the call it has just made until it goes on to the next one.       *)
(***************************************************************************)
EXTENDS Integers, FiniteSets, Sequences, TLC

(* ---- bounds ---- *)
\* number of addresses the allocator can hand out
MaxAddr == 3
\* int arguments range over -MaxInt .. MaxInt
MaxInt == 1

(* ---- values ---- *)
NULL == 0
Addr == 1..MaxAddr
\* addresses of objects owned by the caller (not obtained from malloc)
ForeignAddr == MaxAddr + 1
SuccessAddr == MaxAddr + 2
LeftAddr == MaxAddr + 3
RightAddr == MaxAddr + 4
Ints == (0 - MaxInt)..MaxInt
\* a pointer to a structure, array, callback or user data supplied by the caller
Ptrs == {NULL, ForeignAddr}
\* a bool* success argument: NULL or the address of the caller's flag
BoolPtrs == {NULL, SuccessAddr}
\* a Rope** argument: NULL or the address of one of the caller's Rope* variables
RopePtrPtrs == {NULL, LeftAddr, RightAddr}
\* the value recorded as the result of a void function
Void == "void"

\* the pointers to vectors a caller can pass: NULL or one vector_create returned
VecPtrsOf(vs) == {NULL} \cup vs

VARIABLES
    blocks,   \* the malloc arena: address -> block
    vecs,     \* Vector* values handed to the caller by vector_create
    created,  \* for each of them the fields vector_create set
    mem,      \* the caller's out cells: bool flag and two Rope* variables
    last,     \* the latest call: function, arguments, result
    run       \* where main of test.c is: function, position, locals, exit status

vars == <<blocks, vecs, created, mem, last, run>>

VecPtrs == VecPtrsOf(vecs)

\* no call is being looked at: the client is about to make its next call
NoCall == [fn |-> "none", args |-> << >>, ret |-> Void]
Ready == last.fn = "none"

\* the client calls stub fn with arguments a; res is what the stub returns and
\* leaves in the caller's cells
CallStub(fn, a, res) ==
    /\ last' = [fn |-> fn, args |-> a, ret |-> res.ret, pre |-> mem]
    /\ mem' = res.mem
    /\ UNCHANGED <<blocks, vecs, created, run>>

(* ---- memory ---- *)
FreeBlock == [kind |-> "free"]
IntArray(n) == [kind |-> "int[]", len |-> n]
VectorStruct(d, s, c) == [kind |-> "Vector", data |-> d, size |-> s, capacity |-> c]

FreeAddrs(b) == {a \in Addr : b[a].kind = "free"}
\* what malloc may return in arena b: NULL, or the address of any free block
MallocChoices(b) == {NULL} \cup FreeAddrs(b)
free(b, p) == IF p = NULL THEN b ELSE [b EXCEPT ![p] = FreeBlock]

\* the values an argument of parameter type t can take
Values(t) ==
    CASE t = "int" -> Ints
      [] t = "ptr" -> Ptrs
      [] t = "bool*" -> BoolPtrs
      [] t = "Rope**" -> RopePtrPtrs

\* the argument records for a parameter list: one value for each parameter
RECURSIVE ArgsOf(_)
ArgsOf(params) ==
    IF DOMAIN params = {} THEN {<< >>}
    ELSE LET p == CHOOSE q \in DOMAIN params : TRUE
             rest == [q \in DOMAIN params \ {p} |-> params[q]]
         IN  {(p :> v) @@ a : v \in Values(params[p]), a \in ArgsOf(rest)}

\* *p = val through a pointer into the caller's cells; a store through NULL faults
Store(m, p, val) ==
    IF p = NULL THEN [m EXCEPT !.fault = TRUE]
    ELSE [m EXCEPT !.cells[p] = val]

(* ---- src/vector/vector.c ---- *)

\* the functions of vector.c: kind of the return value, and the parameters
vector_api ==
    [ vector_create |->
         [ret |-> "ptr", params |-> [initial_capacity |-> "int"]],
      vector_destroy |->
         [ret |-> "void", params |-> [vec |-> "Vector*"]],
      vector_size |->
         [ret |-> "int", params |-> [vec |-> "Vector*"]],
      vector_capacity |->
         [ret |-> "int", params |-> [vec |-> "Vector*"]],
      vector_is_empty |->
         [ret |-> "bool", params |-> [vec |-> "Vector*"]],
      vector_push_back |->
         [ret |-> "bool", params |-> [vec |-> "Vector*", item |-> "int"]],
      vector_get_item |->
         [ret |-> "int", params |-> [vec |-> "Vector*", index |-> "int", success |-> "bool*"]],
      vector_set_item |->
         [ret |-> "bool", params |-> [vec |-> "Vector*", index |-> "int", item |-> "int"]],
      vector_insert_item |->
         [ret |-> "bool", params |-> [vec |-> "Vector*", index |-> "int", item |-> "int"]],
      vector_pop_back |->
         [ret |-> "int", params |-> [vec |-> "Vector*", success |-> "bool*"]],
      vector_remove_item |->
         [ret |-> "bool", params |-> [vec |-> "Vector*", index |-> "int"]],
      vector_clear |->
         [ret |-> "void", params |-> [vec |-> "Vector*"]],
      vector_reserve |->
         [ret |-> "bool", params |-> [vec |-> "Vector*", new_capacity |-> "int"]],
      vector_shrink_to_fit |->
         [ret |-> "bool", params |-> [vec |-> "Vector*"]] ]

\* vector_create with one step changed: check = FALSE drops the test for a negative
\* capacity, release = FALSE drops the free(v) after a failed second malloc, and
\* size0 is what v->size is set to
vector_create_variant(b, initial_capacity, c1, c2, check, release, size0) ==
    IF check /\ initial_capacity < 0
    THEN [ret |-> NULL, blocks |-> b, mallocs |-> 0, frees |-> 0]
    ELSE LET v == c1 IN
         IF v = NULL
         THEN [ret |-> NULL, blocks |-> b, mallocs |-> 1, frees |-> 0]
         ELSE LET b1 == [b EXCEPT ![v] = VectorStruct(NULL, size0, initial_capacity)] IN
              IF initial_capacity = 0
              THEN [ret |-> v, blocks |-> b1, mallocs |-> 1, frees |-> 0]
              ELSE LET d == c2
                       b2 == IF d = NULL THEN b1
                             ELSE [b1 EXCEPT ![d] = IntArray(initial_capacity),
                                             ![v].data = d]
                   IN  IF d = NULL
                       THEN [ret |-> NULL,
                             blocks |-> IF release THEN free(b2, v) ELSE b2,
                             mallocs |-> 2,
                             frees |-> IF release THEN 1 ELSE 0]
                       ELSE [ret |-> v, blocks |-> b2, mallocs |-> 2, frees |-> 0]

\* vector_create without the test for a negative capacity
vector_create_unchecked(b, initial_capacity, c1, c2) ==
    vector_create_variant(b, initial_capacity, c1, c2, FALSE, TRUE, 0)

\* vector_create setting v->size to the capacity instead of 0
vector_create_full(b, initial_capacity, c1, c2) ==
    vector_create_variant(b, initial_capacity, c1, c2, TRUE, TRUE, initial_capacity)

\* vector_create returning NULL after a failed second malloc without free(v)
vector_create_leaking(b, initial_capacity, c1, c2) ==
    vector_create_variant(b, initial_capacity, c1, c2, TRUE, FALSE, 0)

\* c1, c2: the results of the first and the second malloc call, if made
vector_create(b, initial_capacity, c1, c2) ==
    IF initial_capacity < 0
    THEN [ret |-> NULL, blocks |-> b, mallocs |-> 0, frees |-> 0]
    ELSE LET v == c1 IN
         IF v = NULL
         THEN [ret |-> NULL, blocks |-> b, mallocs |-> 1, frees |-> 0]
         ELSE LET b1 == [b EXCEPT ![v] = VectorStruct(NULL, 0, initial_capacity)] IN
              IF initial_capacity = 0
              THEN [ret |-> v, blocks |-> b1, mallocs |-> 1, frees |-> 0]
              ELSE LET d == c2
                       b2 == IF d = NULL THEN b1
                             ELSE [b1 EXCEPT ![d] = IntArray(initial_capacity),
                                             ![v].data = d]
                   IN  IF d = NULL
                       THEN [ret |-> NULL, blocks |-> free(b2, v),
                             mallocs |-> 2, frees |-> 1]
                       ELSE [ret |-> v, blocks |-> b2, mallocs |-> 2, frees |-> 0]

Call_vector_create ==
    /\ Ready
    /\ \E initial_capacity \in Ints, c1 \in MallocChoices(blocks) :
       \E c2 \in MallocChoices(blocks) \ (IF c1 = NULL THEN {} ELSE {c1}) :
        LET res == vector_create(blocks, initial_capacity, c1, c2) IN
        /\ blocks' = res.blocks
        /\ vecs' = IF res.ret = NULL THEN vecs ELSE vecs \cup {res.ret}
        /\ created' = IF res.ret = NULL THEN created
                      ELSE (res.ret :> res.blocks[res.ret]) @@ created
        /\ last' = [fn |-> "vector_create",
                    args |-> [initial_capacity |-> initial_capacity],
                    ret |-> res.ret, was |-> blocks,
                    mallocs |-> res.mallocs, frees |-> res.frees,
                    failed |-> {i \in {1} : res.mallocs >= 1 /\ c1 = NULL} \cup
                               {i \in {2} : res.mallocs = 2 /\ c2 = NULL}]
        /\ UNCHANGED <<mem, run>>

vector_destroy(b, vec) == [ret |-> Void, blocks |-> b]

Call_vector_destroy ==
    /\ Ready
    /\ \E vec \in VecPtrs :
          LET res == vector_destroy(blocks, vec) IN
          /\ last' = [fn |-> "vector_destroy", args |-> [vec |-> vec], ret |-> res.ret]
          /\ blocks' = res.blocks
          /\ UNCHANGED <<vecs, created, mem, run>>

\* vector_size answering with an error sentinel
vector_size_sentinel(vec) == -1

vector_size(vec) == 0

Call_vector_size ==
    /\ Ready
    /\ \E vec \in VecPtrs :
          /\ last' = [fn |-> "vector_size", args |-> [vec |-> vec], ret |-> vector_size(vec)]
          /\ UNCHANGED <<blocks, vecs, created, mem, run>>

vector_capacity(vec) == 0

Call_vector_capacity ==
    /\ Ready
    /\ \E vec \in VecPtrs :
          /\ last' = [fn |-> "vector_capacity", args |-> [vec |-> vec], ret |-> vector_capacity(vec)]
          /\ UNCHANGED <<blocks, vecs, created, mem, run>>

\* vector_is_empty with the default the other bool stubs return
vector_is_empty_false(vec) == FALSE

vector_is_empty(vec) == TRUE

Call_vector_is_empty ==
    /\ Ready
    /\ \E vec \in VecPtrs :
          /\ last' = [fn |-> "vector_is_empty", args |-> [vec |-> vec], ret |-> vector_is_empty(vec)]
          /\ UNCHANGED <<blocks, vecs, created, mem, run>>

\* vector_push_back counting the item without looking at the capacity
vector_push_back_unchecked(b, vec, item) ==
    IF vec = NULL THEN [ret |-> FALSE, blocks |-> b]
    ELSE [ret |-> TRUE, blocks |-> [b EXCEPT ![vec].size = @ + 1]]

vector_push_back(b, vec, item) == [ret |-> FALSE, blocks |-> b]

Call_vector_push_back ==
    /\ Ready
    /\ \E vec \in VecPtrs, item \in Ints :
          LET res == vector_push_back(blocks, vec, item) IN
          /\ last' = [fn |-> "vector_push_back", args |-> [vec |-> vec, item |-> item], ret |-> res.ret]
          /\ blocks' = res.blocks
          /\ UNCHANGED <<vecs, created, mem, run>>

\* vector_get_item testing only the lower bound of the index
vector_get_item_unbounded(vec, index, success, m) ==
    [ret |-> 0,
     mem |-> IF success # NULL THEN Store(m, success, vec # NULL /\ index >= 0) ELSE m]

vector_get_item(vec, index, success, m) ==
    [ret |-> 0,
     mem |-> IF success # NULL THEN Store(m, success, FALSE) ELSE m]

Call_vector_get_item ==
    /\ Ready
    /\ \E vec \in VecPtrs, index \in Ints, success \in BoolPtrs :
          LET res == vector_get_item(vec, index, success, mem) IN
          /\ last' = [fn |-> "vector_get_item", args |-> [vec |-> vec, index |-> index, success |-> success], ret |-> res.ret, pre |-> mem]
          /\ mem' = res.mem
          /\ UNCHANGED <<blocks, vecs, created, run>>

\* vector_set_item testing only the lower bound of the index
vector_set_item_unbounded(b, vec, index, item) ==
    [ret |-> vec # NULL /\ index >= 0, blocks |-> b]

vector_set_item(b, vec, index, item) == [ret |-> FALSE, blocks |-> b]

Call_vector_set_item ==
    /\ Ready
    /\ \E vec \in VecPtrs, index \in Ints, item \in Ints :
          LET res == vector_set_item(blocks, vec, index, item) IN
          /\ last' = [fn |-> "vector_set_item", args |-> [vec |-> vec, index |-> index, item |-> item], ret |-> res.ret]
          /\ blocks' = res.blocks
          /\ UNCHANGED <<vecs, created, mem, run>>

\* vector_insert_item counting an item inserted at an index up to the size
vector_insert_item_counting(b, vec, index, item) ==
    IF vec = NULL \/ index < 0 \/ index > b[vec].size
    THEN [ret |-> FALSE, blocks |-> b]
    ELSE [ret |-> TRUE, blocks |-> [b EXCEPT ![vec].size = @ + 1]]

vector_insert_item(b, vec, index, item) == [ret |-> FALSE, blocks |-> b]

Call_vector_insert_item ==
    /\ Ready
    /\ \E vec \in VecPtrs, index \in Ints, item \in Ints :
          LET res == vector_insert_item(blocks, vec, index, item) IN
          /\ last' = [fn |-> "vector_insert_item", args |-> [vec |-> vec, index |-> index, item |-> item], ret |-> res.ret]
          /\ blocks' = res.blocks
          /\ UNCHANGED <<vecs, created, mem, run>>

\* vector_pop_back storing through success without testing it
vector_pop_back_unguarded(b, vec, success, m) ==
    [ret |-> 0,
     blocks |-> b,
     mem |-> Store(m, success, FALSE)]

vector_pop_back(b, vec, success, m) ==
    [ret |-> 0,
     blocks |-> b,
     mem |-> IF success # NULL THEN Store(m, success, FALSE) ELSE m]

Call_vector_pop_back ==
    /\ Ready
    /\ \E vec \in VecPtrs, success \in BoolPtrs :
          LET res == vector_pop_back(blocks, vec, success, mem) IN
          /\ last' = [fn |-> "vector_pop_back", args |-> [vec |-> vec, success |-> success], ret |-> res.ret, pre |-> mem]
          /\ blocks' = res.blocks
          /\ mem' = res.mem
          /\ UNCHANGED <<vecs, created, run>>

vector_remove_item(b, vec, index) == [ret |-> FALSE, blocks |-> b]

Call_vector_remove_item ==
    /\ Ready
    /\ \E vec \in VecPtrs, index \in Ints :
          LET res == vector_remove_item(blocks, vec, index) IN
          /\ last' = [fn |-> "vector_remove_item", args |-> [vec |-> vec, index |-> index], ret |-> res.ret]
          /\ blocks' = res.blocks
          /\ UNCHANGED <<vecs, created, mem, run>>

vector_clear(b, vec) == [ret |-> Void, blocks |-> b]

Call_vector_clear ==
    /\ Ready
    /\ \E vec \in VecPtrs :
          LET res == vector_clear(blocks, vec) IN
          /\ last' = [fn |-> "vector_clear", args |-> [vec |-> vec], ret |-> res.ret]
          /\ blocks' = res.blocks
          /\ UNCHANGED <<vecs, created, mem, run>>

\* vector_reserve recording the larger capacity
vector_reserve_growing(b, vec, new_capacity) ==
    IF vec = NULL \/ new_capacity < 0 THEN [ret |-> FALSE, blocks |-> b]
    ELSE IF new_capacity <= b[vec].capacity THEN [ret |-> TRUE, blocks |-> b]
    ELSE [ret |-> TRUE, blocks |-> [b EXCEPT ![vec].capacity = new_capacity]]

vector_reserve(b, vec, new_capacity) == [ret |-> FALSE, blocks |-> b]

Call_vector_reserve ==
    /\ Ready
    /\ \E vec \in VecPtrs, new_capacity \in Ints :
          LET res == vector_reserve(blocks, vec, new_capacity) IN
          /\ last' = [fn |-> "vector_reserve", args |-> [vec |-> vec, new_capacity |-> new_capacity], ret |-> res.ret]
          /\ blocks' = res.blocks
          /\ UNCHANGED <<vecs, created, mem, run>>

vector_shrink_to_fit(b, vec) == [ret |-> FALSE, blocks |-> b]

Call_vector_shrink_to_fit ==
    /\ Ready
    /\ \E vec \in VecPtrs :
          LET res == vector_shrink_to_fit(blocks, vec) IN
          /\ last' = [fn |-> "vector_shrink_to_fit", args |-> [vec |-> vec], ret |-> res.ret]
          /\ blocks' = res.blocks
          /\ UNCHANGED <<vecs, created, mem, run>>

(* ---- src/stack/stack.c ---- *)

\* the functions of stack.c: kind of the return value, and the parameters
stack_api ==
    [ stack_create |->
         [ret |-> "ptr", params |-> [initial_capacity |-> "int"]],
      stack_destroy |->
         [ret |-> "void", params |-> [s |-> "ptr"]],
      stack_push |->
         [ret |-> "bool", params |-> [s |-> "ptr", item |-> "int"]],
      stack_pop |->
         [ret |-> "int", params |-> [s |-> "ptr", success |-> "bool*"]],
      stack_peek |->
         [ret |-> "int", params |-> [s |-> "ptr", success |-> "bool*"]],
      stack_is_empty |->
         [ret |-> "bool", params |-> [s |-> "ptr"]],
      stack_size |->
         [ret |-> "int", params |-> [s |-> "ptr"]],
      stack_capacity |->
         [ret |-> "int", params |-> [s |-> "ptr"]],
      stack_clear |->
         [ret |-> "void", params |-> [s |-> "ptr"]],
      stack_reserve |->
         [ret |-> "bool", params |-> [s |-> "ptr", new_capacity |-> "int"]],
      stack_print |->
         [ret |-> "void", params |-> [s |-> "ptr"]] ]

\* stack.c: what function fn returns and leaves in the caller's cells m when
\* called with arguments a
stack_c(fn, a, m) ==
    CASE fn = "stack_create" -> [ret |-> NULL, mem |-> m]
      [] fn = "stack_destroy" -> [ret |-> Void, mem |-> m]
      [] fn = "stack_push" -> [ret |-> FALSE, mem |-> m]
      [] fn = "stack_pop" ->
            [ret |-> 0,
             mem |-> IF a.success # NULL THEN Store(m, a.success, FALSE) ELSE m]
      [] fn = "stack_peek" ->
            [ret |-> 0,
             mem |-> IF a.success # NULL THEN Store(m, a.success, FALSE) ELSE m]
      [] fn = "stack_is_empty" -> [ret |-> TRUE, mem |-> m]
      [] fn = "stack_size" -> [ret |-> 0, mem |-> m]
      [] fn = "stack_capacity" -> [ret |-> 0, mem |-> m]
      [] fn = "stack_clear" -> [ret |-> Void, mem |-> m]
      [] fn = "stack_reserve" -> [ret |-> FALSE, mem |-> m]
      [] fn = "stack_print" -> [ret |-> Void, mem |-> m]

\* a call of a function of stack.c
Call_stack ==
    /\ Ready
    /\ \E fn \in DOMAIN stack_api :
       \E a \in ArgsOf(stack_api[fn].params) :
          CallStub(fn, a, stack_c(fn, a, mem))

(* ---- src/queue/queue.c ---- *)

\* the functions of queue.c: kind of the return value, and the parameters
queue_api ==
    [ queue_create |->
         [ret |-> "ptr", params |-> [initial_capacity |-> "int"]],
      queue_destroy |->
         [ret |-> "void", params |-> [q |-> "ptr"]],
      queue_enqueue |->
         [ret |-> "bool", params |-> [q |-> "ptr", item |-> "int"]],
      queue_dequeue |->
         [ret |-> "int", params |-> [q |-> "ptr", success |-> "bool*"]],
      queue_peek |->
         [ret |-> "int", params |-> [q |-> "ptr", success |-> "bool*"]],
      queue_is_empty |->
         [ret |-> "bool", params |-> [q |-> "ptr"]],
      queue_size |->
         [ret |-> "int", params |-> [q |-> "ptr"]],
      queue_capacity |->
         [ret |-> "int", params |-> [q |-> "ptr"]],
      queue_clear |->
         [ret |-> "void", params |-> [q |-> "ptr"]],
      queue_reserve |->
         [ret |-> "bool", params |-> [q |-> "ptr", new_capacity |-> "int"]],
      queue_print |->
         [ret |-> "void", params |-> [q |-> "ptr"]] ]

\* queue.c: what function fn returns and leaves in the caller's cells m when
\* called with arguments a
queue_c(fn, a, m) ==
    CASE fn = "queue_create" -> [ret |-> NULL, mem |-> m]
      [] fn = "queue_destroy" -> [ret |-> Void, mem |-> m]
      [] fn = "queue_enqueue" -> [ret |-> FALSE, mem |-> m]
      [] fn = "queue_dequeue" ->
            [ret |-> 0,
             mem |-> IF a.success # NULL THEN Store(m, a.success, FALSE) ELSE m]
      [] fn = "queue_peek" ->
            [ret |-> 0,
             mem |-> IF a.success # NULL THEN Store(m, a.success, FALSE) ELSE m]
      [] fn = "queue_is_empty" -> [ret |-> TRUE, mem |-> m]
      [] fn = "queue_size" -> [ret |-> 0, mem |-> m]
      [] fn = "queue_capacity" -> [ret |-> 0, mem |-> m]
      [] fn = "queue_clear" -> [ret |-> Void, mem |-> m]
      [] fn = "queue_reserve" -> [ret |-> FALSE, mem |-> m]
      [] fn = "queue_print" -> [ret |-> Void, mem |-> m]

\* a call of a function of queue.c
Call_queue ==
    /\ Ready
    /\ \E fn \in DOMAIN queue_api :
       \E a \in ArgsOf(queue_api[fn].params) :
          CallStub(fn, a, queue_c(fn, a, mem))

(* ---- src/deque/deque.c ---- *)

\* the functions of deque.c: kind of the return value, and the parameters
deque_api ==
    [ deque_create |->
         [ret |-> "ptr", params |-> [initial_capacity |-> "int"]],
      deque_destroy |->
         [ret |-> "void", params |-> [dq |-> "ptr"]],
      deque_add_first |->
         [ret |-> "bool", params |-> [dq |-> "ptr", item |-> "int"]],
      deque_add_last |->
         [ret |-> "bool", params |-> [dq |-> "ptr", item |-> "int"]],
      deque_remove_first |->
         [ret |-> "int", params |-> [dq |-> "ptr", success |-> "bool*"]],
      deque_remove_last |->
         [ret |-> "int", params |-> [dq |-> "ptr", success |-> "bool*"]],
      deque_peek_first |->
         [ret |-> "int", params |-> [dq |-> "ptr", success |-> "bool*"]],
      deque_peek_last |->
         [ret |-> "int", params |-> [dq |-> "ptr", success |-> "bool*"]],
      deque_is_empty |->
         [ret |-> "bool", params |-> [dq |-> "ptr"]],
      deque_size |->
         [ret |-> "int", params |-> [dq |-> "ptr"]],
      deque_capacity |->
         [ret |-> "int", params |-> [dq |-> "ptr"]],
      deque_clear |->
         [ret |-> "void", params |-> [dq |-> "ptr"]],
      deque_reserve |->
         [ret |-> "bool", params |-> [dq |-> "ptr", new_capacity |-> "int"]],
      deque_print |->
         [ret |-> "void", params |-> [dq |-> "ptr"]] ]

\* deque.c: what function fn returns and leaves in the caller's cells m when
\* called with arguments a
deque_c(fn, a, m) ==
    CASE fn = "deque_create" -> [ret |-> NULL, mem |-> m]
      [] fn = "deque_destroy" -> [ret |-> Void, mem |-> m]
      [] fn = "deque_add_first" -> [ret |-> FALSE, mem |-> m]
      [] fn = "deque_add_last" -> [ret |-> FALSE, mem |-> m]
      [] fn = "deque_remove_first" ->
            [ret |-> 0,
             mem |-> IF a.success # NULL THEN Store(m, a.success, FALSE) ELSE m]
      [] fn = "deque_remove_last" ->
            [ret |-> 0,
             mem |-> IF a.success # NULL THEN Store(m, a.success, FALSE) ELSE m]
      [] fn = "deque_peek_first" ->
            [ret |-> 0,
             mem |-> IF a.success # NULL THEN Store(m, a.success, FALSE) ELSE m]
      [] fn = "deque_peek_last" ->
            [ret |-> 0,
             mem |-> IF a.success # NULL THEN Store(m, a.success, FALSE) ELSE m]
      [] fn = "deque_is_empty" -> [ret |-> TRUE, mem |-> m]
      [] fn = "deque_size" -> [ret |-> 0, mem |-> m]
      [] fn = "deque_capacity" -> [ret |-> 0, mem |-> m]
      [] fn = "deque_clear" -> [ret |-> Void, mem |-> m]
      [] fn = "deque_reserve" -> [ret |-> FALSE, mem |-> m]
      [] fn = "deque_print" -> [ret |-> Void, mem |-> m]

\* a call of a function of deque.c
Call_deque ==
    /\ Ready
    /\ \E fn \in DOMAIN deque_api :
       \E a \in ArgsOf(deque_api[fn].params) :
          CallStub(fn, a, deque_c(fn, a, mem))

(* ---- src/singly_linked_list/singly_linked_list.c ---- *)

\* the functions of singly_linked_list.c: kind of the return value, and the parameters
sll_api ==
    [ sll_create |->
         [ret |-> "ptr", params |-> << >>],
      sll_destroy |->
         [ret |-> "void", params |-> [list |-> "ptr"]],
      sll_size |->
         [ret |-> "int", params |-> [list |-> "ptr"]],
      sll_is_empty |->
         [ret |-> "bool", params |-> [list |-> "ptr"]],
      sll_add_first |->
         [ret |-> "bool", params |-> [list |-> "ptr", item |-> "int"]],
      sll_add_last |->
         [ret |-> "bool", params |-> [list |-> "ptr", item |-> "int"]],
      sll_insert_at |->
         [ret |-> "bool", params |-> [list |-> "ptr", index |-> "int", item |-> "int"]],
      sll_get_first |->
         [ret |-> "int", params |-> [list |-> "ptr", success |-> "bool*"]],
      sll_get_last |->
         [ret |-> "int", params |-> [list |-> "ptr", success |-> "bool*"]],
      sll_get_at |->
         [ret |-> "int", params |-> [list |-> "ptr", index |-> "int", success |-> "bool*"]],
      sll_remove_first |->
         [ret |-> "int", params |-> [list |-> "ptr", success |-> "bool*"]],
      sll_remove_last |->
         [ret |-> "int", params |-> [list |-> "ptr", success |-> "bool*"]],
      sll_remove_at |->
         [ret |-> "int", params |-> [list |-> "ptr", index |-> "int", success |-> "bool*"]],
      sll_contains |->
         [ret |-> "bool", params |-> [list |-> "ptr", item |-> "int"]],
      sll_clear |->
         [ret |-> "void", params |-> [list |-> "ptr"]],
      sll_print |->
         [ret |-> "void", params |-> [list |-> "ptr"]] ]

\* singly_linked_list.c: what function fn returns and leaves in the caller's cells m when
\* called with arguments a
sll_c(fn, a, m) ==
    CASE fn = "sll_create" -> [ret |-> NULL, mem |-> m]
      [] fn = "sll_destroy" -> [ret |-> Void, mem |-> m]
      [] fn = "sll_size" -> [ret |-> 0, mem |-> m]
      [] fn = "sll_is_empty" -> [ret |-> TRUE, mem |-> m]
      [] fn = "sll_add_first" -> [ret |-> FALSE, mem |-> m]
      [] fn = "sll_add_last" -> [ret |-> FALSE, mem |-> m]
      [] fn = "sll_insert_at" -> [ret |-> FALSE, mem |-> m]
      [] fn = "sll_get_first" ->
            [ret |-> 0,
             mem |-> IF a.success # NULL THEN Store(m, a.success, FALSE) ELSE m]
      [] fn = "sll_get_last" ->
            [ret |-> 0,
             mem |-> IF a.success # NULL THEN Store(m, a.success, FALSE) ELSE m]
      [] fn = "sll_get_at" ->
            [ret |-> 0,
             mem |-> IF a.success # NULL THEN Store(m, a.success, FALSE) ELSE m]
      [] fn = "sll_remove_first" ->
            [ret |-> 0,
             mem |-> IF a.success # NULL THEN Store(m, a.success, FALSE) ELSE m]
      [] fn = "sll_remove_last" ->
            [ret |-> 0,
             mem |-> IF a.success # NULL THEN Store(m, a.success, FALSE) ELSE m]
      [] fn = "sll_remove_at" ->
            [ret |-> 0,
             mem |-> IF a.success # NULL THEN Store(m, a.success, FALSE) ELSE m]
      [] fn = "sll_contains" -> [ret |-> FALSE, mem |-> m]
      [] fn = "sll_clear" -> [ret |-> Void, mem |-> m]
      [] fn = "sll_print" -> [ret |-> Void, mem |-> m]

\* a call of a function of singly_linked_list.c
Call_sll ==
    /\ Ready
    /\ \E fn \in DOMAIN sll_api :
       \E a \in ArgsOf(sll_api[fn].params) :
          CallStub(fn, a, sll_c(fn, a, mem))

(* ---- src/doubly_linked_list/doubly_linked_list.c ---- *)

\* the functions of doubly_linked_list.c: kind of the return value, and the parameters
dll_api ==
    [ dll_create |->
         [ret |-> "ptr", params |-> << >>],
      dll_destroy |->
         [ret |-> "void", params |-> [list |-> "ptr"]],
      dll_size |->
         [ret |-> "int", params |-> [list |-> "ptr"]],
      dll_is_empty |->
         [ret |-> "bool", params |-> [list |-> "ptr"]],
      dll_add_first |->
         [ret |-> "bool", params |-> [list |-> "ptr", item |-> "int"]],
      dll_add_last |->
         [ret |-> "bool", params |-> [list |-> "ptr", item |-> "int"]],
      dll_insert_at |->
         [ret |-> "bool", params |-> [list |-> "ptr", index |-> "int", item |-> "int"]],
      dll_get_first |->
         [ret |-> "int", params |-> [list |-> "ptr", success |-> "bool*"]],
      dll_get_last |->
         [ret |-> "int", params |-> [list |-> "ptr", success |-> "bool*"]],
      dll_get_at |->
         [ret |-> "int", params |-> [list |-> "ptr", index |-> "int", success |-> "bool*"]],
      dll_remove_first |->
         [ret |-> "int", params |-> [list |-> "ptr", success |-> "bool*"]],
      dll_remove_last |->
         [ret |-> "int", params |-> [list |-> "ptr", success |-> "bool*"]],
      dll_remove_at |->
         [ret |-> "int", params |-> [list |-> "ptr", index |-> "int", success |-> "bool*"]],
      dll_contains |->
         [ret |-> "bool", params |-> [list |-> "ptr", item |-> "int"]],
      dll_clear |->
         [ret |-> "void", params |-> [list |-> "ptr"]],
      dll_print_forward |->
         [ret |-> "void", params |-> [list |-> "ptr"]],
      dll_print_backward |->
         [ret |-> "void", params |-> [list |-> "ptr"]] ]

\* doubly_linked_list.c: what function fn returns and leaves in the caller's cells m when
\* called with arguments a
dll_c(fn, a, m) ==
    CASE fn = "dll_create" -> [ret |-> NULL, mem |-> m]
      [] fn = "dll_destroy" -> [ret |-> Void, mem |-> m]
      [] fn = "dll_size" -> [ret |-> 0, mem |-> m]
      [] fn = "dll_is_empty" -> [ret |-> TRUE, mem |-> m]
      [] fn = "dll_add_first" -> [ret |-> FALSE, mem |-> m]
      [] fn = "dll_add_last" -> [ret |-> FALSE, mem |-> m]
      [] fn = "dll_insert_at" -> [ret |-> FALSE, mem |-> m]
      [] fn = "dll_get_first" ->
            [ret |-> 0,
             mem |-> IF a.success # NULL THEN Store(m, a.success, FALSE) ELSE m]
      [] fn = "dll_get_last" ->
            [ret |-> 0,
             mem |-> IF a.success # NULL THEN Store(m, a.success, FALSE) ELSE m]
      [] fn = "dll_get_at" ->
            [ret |-> 0,
             mem |-> IF a.success # NULL THEN Store(m, a.success, FALSE) ELSE m]
      [] fn = "dll_remove_first" ->
            [ret |-> 0,
             mem |-> IF a.success # NULL THEN Store(m, a.success, FALSE) ELSE m]
      [] fn = "dll_remove_last" ->
            [ret |-> 0,
             mem |-> IF a.success # NULL THEN Store(m, a.success, FALSE) ELSE m]
      [] fn = "dll_remove_at" ->
            [ret |-> 0,
             mem |-> IF a.success # NULL THEN Store(m, a.success, FALSE) ELSE m]
      [] fn = "dll_contains" -> [ret |-> FALSE, mem |-> m]
      [] fn = "dll_clear" -> [ret |-> Void, mem |-> m]
      [] fn = "dll_print_forward" -> [ret |-> Void, mem |-> m]
      [] fn = "dll_print_backward" -> [ret |-> Void, mem |-> m]

\* a call of a function of doubly_linked_list.c
Call_dll ==
    /\ Ready
    /\ \E fn \in DOMAIN dll_api :
       \E a \in ArgsOf(dll_api[fn].params) :
          CallStub(fn, a, dll_c(fn, a, mem))

(* ---- src/hash_set/hash_set.c ---- *)

\* the functions of hash_set.c: kind of the return value, and the parameters
hash_set_api ==
    [ hash_set_create |->
         [ret |-> "ptr", params |-> [initial_table_capacity |-> "int"]],
      hash_set_destroy |->
         [ret |-> "void", params |-> [set |-> "ptr"]],
      hash_set_insert |->
         [ret |-> "bool", params |-> [set |-> "ptr", value |-> "int"]],
      hash_set_contains |->
         [ret |-> "bool", params |-> [set |-> "ptr", value |-> "int"]],
      hash_set_remove |->
         [ret |-> "bool", params |-> [set |-> "ptr", value |-> "int"]],
      hash_set_size |->
         [ret |-> "int", params |-> [set |-> "ptr"]],
      hash_set_table_capacity |->
         [ret |-> "int", params |-> [set |-> "ptr"]],
      hash_set_is_empty |->
         [ret |-> "bool", params |-> [set |-> "ptr"]],
      hash_set_clear |->
         [ret |-> "void", params |-> [set |-> "ptr"]],
      hash_set_resize |->
         [ret |-> "bool", params |-> [set |-> "ptr", new_table_capacity |-> "int"]],
      hash_set_print |->
         [ret |-> "void", params |-> [set |-> "ptr"]] ]

\* hash_set.c: what function fn returns and leaves in the caller's cells m when
\* called with arguments a
\* hash_set.c with a hash_set_create that rejects only a negative capacity
hash_set_c_lenient(fn, a, m) ==
    CASE fn = "hash_set_create" ->
            [ret |-> IF a.initial_table_capacity < 0 THEN NULL ELSE ForeignAddr, mem |-> m]
      [] fn = "hash_set_destroy" -> [ret |-> Void, mem |-> m]
      [] fn = "hash_set_insert" -> [ret |-> FALSE, mem |-> m]
      [] fn = "hash_set_contains" -> [ret |-> FALSE, mem |-> m]
      [] fn = "hash_set_remove" -> [ret |-> FALSE, mem |-> m]
      [] fn = "hash_set_size" -> [ret |-> 0, mem |-> m]
      [] fn = "hash_set_table_capacity" -> [ret |-> 0, mem |-> m]
      [] fn = "hash_set_is_empty" -> [ret |-> TRUE, mem |-> m]
      [] fn = "hash_set_clear" -> [ret |-> Void, mem |-> m]
      [] fn = "hash_set_resize" -> [ret |-> FALSE, mem |-> m]
      [] fn = "hash_set_print" -> [ret |-> Void, mem |-> m]

hash_set_c(fn, a, m) ==
    CASE fn = "hash_set_create" -> [ret |-> NULL, mem |-> m]
      [] fn = "hash_set_destroy" -> [ret |-> Void, mem |-> m]
      [] fn = "hash_set_insert" -> [ret |-> FALSE, mem |-> m]
      [] fn = "hash_set_contains" -> [ret |-> FALSE, mem |-> m]
      [] fn = "hash_set_remove" -> [ret |-> FALSE, mem |-> m]
      [] fn = "hash_set_size" -> [ret |-> 0, mem |-> m]
      [] fn = "hash_set_table_capacity" -> [ret |-> 0, mem |-> m]
      [] fn = "hash_set_is_empty" -> [ret |-> TRUE, mem |-> m]
      [] fn = "hash_set_clear" -> [ret |-> Void, mem |-> m]
      [] fn = "hash_set_resize" -> [ret |-> FALSE, mem |-> m]
      [] fn = "hash_set_print" -> [ret |-> Void, mem |-> m]

\* a call of a function of hash_set.c
Call_hash_set ==
    /\ Ready
    /\ \E fn \in DOMAIN hash_set_api :
       \E a \in ArgsOf(hash_set_api[fn].params) :
          CallStub(fn, a, hash_set_c(fn, a, mem))

(* ---- src/binary_search_tree/binary_search_tree.c ---- *)

\* the functions of binary_search_tree.c: kind of the return value, and the parameters
bst_api ==
    [ bst_create |->
         [ret |-> "ptr", params |-> << >>],
      bst_destroy |->
         [ret |-> "void", params |-> [tree |-> "ptr"]],
      bst_insert |->
         [ret |-> "bool", params |-> [tree |-> "ptr", value |-> "int"]],
      bst_contains |->
         [ret |-> "bool", params |-> [tree |-> "ptr", value |-> "int"]],
      bst_remove |->
         [ret |-> "bool", params |-> [tree |-> "ptr", value |-> "int"]],
      bst_size |->
         [ret |-> "int", params |-> [tree |-> "ptr"]],
      bst_is_empty |->
         [ret |-> "bool", params |-> [tree |-> "ptr"]],
      bst_clear |->
         [ret |-> "void", params |-> [tree |-> "ptr"]],
      bst_find_min |->
         [ret |-> "int", params |-> [tree |-> "ptr", success |-> "bool*"]],
      bst_find_max |->
         [ret |-> "int", params |-> [tree |-> "ptr", success |-> "bool*"]],
      bst_height |->
         [ret |-> "int", params |-> [tree |-> "ptr"]],
      bst_in_order_traversal |->
         [ret |-> "void", params |-> [tree |-> "ptr", visitor |-> "ptr", user_data |-> "ptr"]],
      bst_pre_order_traversal |->
         [ret |-> "void", params |-> [tree |-> "ptr", visitor |-> "ptr", user_data |-> "ptr"]],
      bst_post_order_traversal |->
         [ret |-> "void", params |-> [tree |-> "ptr", visitor |-> "ptr", user_data |-> "ptr"]] ]

\* binary_search_tree.c: what function fn returns and leaves in the caller's cells m when
\* called with arguments a
bst_c(fn, a, m) ==
    CASE fn = "bst_create" -> [ret |-> NULL, mem |-> m]
      [] fn = "bst_destroy" -> [ret |-> Void, mem |-> m]
      [] fn = "bst_insert" -> [ret |-> FALSE, mem |-> m]
      [] fn = "bst_contains" -> [ret |-> FALSE, mem |-> m]
      [] fn = "bst_remove" -> [ret |-> FALSE, mem |-> m]
      [] fn = "bst_size" -> [ret |-> 0, mem |-> m]
      [] fn = "bst_is_empty" -> [ret |-> TRUE, mem |-> m]
      [] fn = "bst_clear" -> [ret |-> Void, mem |-> m]
      [] fn = "bst_find_min" ->
            [ret |-> 0,
             mem |-> IF a.success # NULL THEN Store(m, a.success, FALSE) ELSE m]
      [] fn = "bst_find_max" ->
            [ret |-> 0,
             mem |-> IF a.success # NULL THEN Store(m, a.success, FALSE) ELSE m]
      [] fn = "bst_height" -> [ret |-> -1, mem |-> m]
      [] fn = "bst_in_order_traversal" -> [ret |-> Void, mem |-> m]
      [] fn = "bst_pre_order_traversal" -> [ret |-> Void, mem |-> m]
      [] fn = "bst_post_order_traversal" -> [ret |-> Void, mem |-> m]

\* a call of a function of binary_search_tree.c
Call_bst ==
    /\ Ready
    /\ \E fn \in DOMAIN bst_api :
       \E a \in ArgsOf(bst_api[fn].params) :
          CallStub(fn, a, bst_c(fn, a, mem))

(* ---- src/avl_tree/avl_tree.c ---- *)

\* the functions of avl_tree.c: kind of the return value, and the parameters
avl_tree_api ==
    [ avl_tree_create |->
         [ret |-> "ptr", params |-> << >>],
      avl_tree_destroy |->
         [ret |-> "void", params |-> [tree |-> "ptr"]],
      avl_tree_insert |->
         [ret |-> "bool", params |-> [tree |-> "ptr", value |-> "int"]],
      avl_tree_contains |->
         [ret |-> "bool", params |-> [tree |-> "ptr", value |-> "int"]],
      avl_tree_remove |->
         [ret |-> "bool", params |-> [tree |-> "ptr", value |-> "int"]],
      avl_tree_size |->
         [ret |-> "int", params |-> [tree |-> "ptr"]],
      avl_tree_is_empty |->
         [ret |-> "bool", params |-> [tree |-> "ptr"]],
      avl_tree_get_height |->
         [ret |-> "int", params |-> [tree |-> "ptr"]],
      avl_tree_in_order_traversal |->
         [ret |-> "void", params |-> [tree |-> "ptr", visitor |-> "ptr", user_data |-> "ptr"]],
      avl_tree_pre_order_traversal |->
         [ret |-> "void", params |-> [tree |-> "ptr", visitor |-> "ptr", user_data |-> "ptr"]],
      avl_tree_post_order_traversal |->
         [ret |-> "void", params |-> [tree |-> "ptr", visitor |-> "ptr", user_data |-> "ptr"]] ]

\* avl_tree.c: what function fn returns and leaves in the caller's cells m when
\* called with arguments a
avl_tree_c(fn, a, m) ==
    CASE fn = "avl_tree_create" -> [ret |-> NULL, mem |-> m]
      [] fn = "avl_tree_destroy" -> [ret |-> Void, mem |-> m]
      [] fn = "avl_tree_insert" -> [ret |-> FALSE, mem |-> m]
      [] fn = "avl_tree_contains" -> [ret |-> FALSE, mem |-> m]
      [] fn = "avl_tree_remove" -> [ret |-> FALSE, mem |-> m]
      [] fn = "avl_tree_size" -> [ret |-> 0, mem |-> m]
      [] fn = "avl_tree_is_empty" -> [ret |-> TRUE, mem |-> m]
      [] fn = "avl_tree_get_height" -> [ret |-> -1, mem |-> m]
      [] fn = "avl_tree_in_order_traversal" -> [ret |-> Void, mem |-> m]
      [] fn = "avl_tree_pre_order_traversal" -> [ret |-> Void, mem |-> m]
      [] fn = "avl_tree_post_order_traversal" -> [ret |-> Void, mem |-> m]

\* a call of a function of avl_tree.c
Call_avl_tree ==
    /\ Ready
    /\ \E fn \in DOMAIN avl_tree_api :
       \E a \in ArgsOf(avl_tree_api[fn].params) :
          CallStub(fn, a, avl_tree_c(fn, a, mem))

(* ---- src/red_black_tree/red_black_tree.c ---- *)

\* the functions of red_black_tree.c: kind of the return value, and the parameters
rbt_api ==
    [ rbt_create |->
         [ret |-> "ptr", params |-> << >>],
      rbt_destroy |->
         [ret |-> "void", params |-> [tree |-> "ptr"]],
      rbt_insert |->
         [ret |-> "bool", params |-> [tree |-> "ptr", value |-> "int"]],
      rbt_contains |->
         [ret |-> "bool", params |-> [tree |-> "ptr", value |-> "int"]],
      rbt_remove |->
         [ret |-> "bool", params |-> [tree |-> "ptr", value |-> "int"]],
      rbt_size |->
         [ret |-> "int", params |-> [tree |-> "ptr"]],
      rbt_is_empty |->
         [ret |-> "bool", params |-> [tree |-> "ptr"]],
      rbt_in_order_traversal |->
         [ret |-> "void", params |-> [tree |-> "ptr", visitor |-> "ptr", user_data |-> "ptr"]] ]

\* red_black_tree.c: what function fn returns and leaves in the caller's cells m when
\* called with arguments a
rbt_c(fn, a, m) ==
    CASE fn = "rbt_create" -> [ret |-> NULL, mem |-> m]
      [] fn = "rbt_destroy" -> [ret |-> Void, mem |-> m]
      [] fn = "rbt_insert" -> [ret |-> FALSE, mem |-> m]
      [] fn = "rbt_contains" -> [ret |-> FALSE, mem |-> m]
      [] fn = "rbt_remove" -> [ret |-> FALSE, mem |-> m]
      [] fn = "rbt_size" -> [ret |-> 0, mem |-> m]
      [] fn = "rbt_is_empty" -> [ret |-> TRUE, mem |-> m]
      [] fn = "rbt_in_order_traversal" -> [ret |-> Void, mem |-> m]

\* a call of a function of red_black_tree.c
Call_rbt ==
    /\ Ready
    /\ \E fn \in DOMAIN rbt_api :
       \E a \in ArgsOf(rbt_api[fn].params) :
          CallStub(fn, a, rbt_c(fn, a, mem))

(* ---- src/binary_heap/binary_heap.c ---- *)

\* the functions of binary_heap.c: kind of the return value, and the parameters
binary_heap_api ==
    [ binary_heap_create |->
         [ret |-> "ptr", params |-> [initial_capacity |-> "int"]],
      binary_heap_destroy |->
         [ret |-> "void", params |-> [heap |-> "ptr"]],
      binary_heap_insert |->
         [ret |-> "bool", params |-> [heap |-> "ptr", value |-> "int"]],
      binary_heap_extract_min |->
         [ret |-> "int", params |-> [heap |-> "ptr", success |-> "bool*"]],
      binary_heap_peek_min |->
         [ret |-> "int", params |-> [heap |-> "ptr", success |-> "bool*"]],
      binary_heap_is_empty |->
         [ret |-> "bool", params |-> [heap |-> "ptr"]],
      binary_heap_size |->
         [ret |-> "int", params |-> [heap |-> "ptr"]],
      binary_heap_capacity |->
         [ret |-> "int", params |-> [heap |-> "ptr"]],
      binary_heap_clear |->
         [ret |-> "void", params |-> [heap |-> "ptr"]],
      binary_heap_print_array |->
         [ret |-> "void", params |-> [heap |-> "ptr"]] ]

\* binary_heap.c: what function fn returns and leaves in the caller's cells m when
\* called with arguments a
binary_heap_c(fn, a, m) ==
    CASE fn = "binary_heap_create" -> [ret |-> NULL, mem |-> m]
      [] fn = "binary_heap_destroy" -> [ret |-> Void, mem |-> m]
      [] fn = "binary_heap_insert" -> [ret |-> FALSE, mem |-> m]
      [] fn = "binary_heap_extract_min" ->
            [ret |-> 0,
             mem |-> IF a.success # NULL THEN Store(m, a.success, FALSE) ELSE m]
      [] fn = "binary_heap_peek_min" ->
            [ret |-> 0,
             mem |-> IF a.success # NULL THEN Store(m, a.success, FALSE) ELSE m]
      [] fn = "binary_heap_is_empty" -> [ret |-> TRUE, mem |-> m]
      [] fn = "binary_heap_size" -> [ret |-> 0, mem |-> m]
      [] fn = "binary_heap_capacity" -> [ret |-> 0, mem |-> m]
      [] fn = "binary_heap_clear" -> [ret |-> Void, mem |-> m]
      [] fn = "binary_heap_print_array" -> [ret |-> Void, mem |-> m]

\* a call of a function of binary_heap.c
Call_binary_heap ==
    /\ Ready
    /\ \E fn \in DOMAIN binary_heap_api :
       \E a \in ArgsOf(binary_heap_api[fn].params) :
          CallStub(fn, a, binary_heap_c(fn, a, mem))

(* ---- src/disjoint_set_union/disjoint_set_union.c ---- *)

\* the functions of disjoint_set_union.c: kind of the return value, and the parameters
dsu_api ==
    [ dsu_create |->
         [ret |-> "ptr", params |-> [num_elements |-> "int"]],
      dsu_destroy |->
         [ret |-> "void", params |-> [dsu |-> "ptr"]],
      dsu_find |->
         [ret |-> "int", params |-> [dsu |-> "ptr", element_id |-> "int"]],
      dsu_union_sets |->
         [ret |-> "bool", params |-> [dsu |-> "ptr", element_id1 |-> "int", element_id2 |-> "int"]],
      dsu_are_in_same_set |->
         [ret |-> "bool", params |-> [dsu |-> "ptr", element_id1 |-> "int", element_id2 |-> "int"]],
      dsu_get_num_sets |->
         [ret |-> "int", params |-> [dsu |-> "ptr"]],
      dsu_get_set_size |->
         [ret |-> "int", params |-> [dsu |-> "ptr", element_id |-> "int"]],
      dsu_print_parents |->
         [ret |-> "void", params |-> [dsu |-> "ptr"]] ]

\* disjoint_set_union.c with dsu_get_set_size signalling an error the way dsu_find does
dsu_c_negative(fn, a, m) ==
    CASE fn = "dsu_create" -> [ret |-> NULL, mem |-> m]
      [] fn = "dsu_destroy" -> [ret |-> Void, mem |-> m]
      [] fn = "dsu_find" -> [ret |-> -1, mem |-> m]
      [] fn = "dsu_union_sets" -> [ret |-> FALSE, mem |-> m]
      [] fn = "dsu_are_in_same_set" -> [ret |-> FALSE, mem |-> m]
      [] fn = "dsu_get_num_sets" -> [ret |-> 0, mem |-> m]
      [] fn = "dsu_get_set_size" -> [ret |-> -1, mem |-> m]
      [] fn = "dsu_print_parents" -> [ret |-> Void, mem |-> m]

\* disjoint_set_union.c: what function fn returns and leaves in the caller's cells m when
\* called with arguments a
dsu_c(fn, a, m) ==
    CASE fn = "dsu_create" -> [ret |-> NULL, mem |-> m]
      [] fn = "dsu_destroy" -> [ret |-> Void, mem |-> m]
      [] fn = "dsu_find" -> [ret |-> -1, mem |-> m]
      [] fn = "dsu_union_sets" -> [ret |-> FALSE, mem |-> m]
      [] fn = "dsu_are_in_same_set" -> [ret |-> FALSE, mem |-> m]
      [] fn = "dsu_get_num_sets" -> [ret |-> 0, mem |-> m]
      [] fn = "dsu_get_set_size" -> [ret |-> 0, mem |-> m]
      [] fn = "dsu_print_parents" -> [ret |-> Void, mem |-> m]

\* a call of a function of disjoint_set_union.c
Call_dsu ==
    /\ Ready
    /\ \E fn \in DOMAIN dsu_api :
       \E a \in ArgsOf(dsu_api[fn].params) :
          CallStub(fn, a, dsu_c(fn, a, mem))

(* ---- src/trie/trie.c ---- *)

\* the functions of trie.c: kind of the return value, and the parameters
trie_api ==
    [ trie_create |->
         [ret |-> "ptr", params |-> << >>],
      trie_destroy |->
         [ret |-> "void", params |-> [trie_ptr |-> "ptr"]],
      trie_insert |->
         [ret |-> "bool", params |-> [trie_ptr |-> "ptr", value |-> "int"]],
      trie_contains |->
         [ret |-> "bool", params |-> [trie_ptr |-> "ptr", value |-> "int"]],
      trie_remove |->
         [ret |-> "bool", params |-> [trie_ptr |-> "ptr", value |-> "int"]],
      trie_find_max_xor |->
         [ret |-> "int", params |-> [trie_ptr |-> "ptr", query_value |-> "int", success |-> "bool*"]] ]

\* trie.c with trie_insert reporting success on a trie
trie_c_accepting(fn, a, m) ==
    CASE fn = "trie_create" -> [ret |-> NULL, mem |-> m]
      [] fn = "trie_destroy" -> [ret |-> Void, mem |-> m]
      [] fn = "trie_insert" -> [ret |-> a.trie_ptr # NULL, mem |-> m]
      [] fn = "trie_contains" -> [ret |-> FALSE, mem |-> m]
      [] fn = "trie_remove" -> [ret |-> FALSE, mem |-> m]
      [] fn = "trie_find_max_xor" ->
            [ret |-> 0,
             mem |-> IF a.success # NULL THEN Store(m, a.success, FALSE) ELSE m]

\* trie.c: what function fn returns and leaves in the caller's cells m when
\* called with arguments a
trie_c(fn, a, m) ==
    CASE fn = "trie_create" -> [ret |-> NULL, mem |-> m]
      [] fn = "trie_destroy" -> [ret |-> Void, mem |-> m]
      [] fn = "trie_insert" -> [ret |-> FALSE, mem |-> m]
      [] fn = "trie_contains" -> [ret |-> FALSE, mem |-> m]
      [] fn = "trie_remove" -> [ret |-> FALSE, mem |-> m]
      [] fn = "trie_find_max_xor" ->
            [ret |-> 0,
             mem |-> IF a.success # NULL THEN Store(m, a.success, FALSE) ELSE m]

\* a call of a function of trie.c
Call_trie ==
    /\ Ready
    /\ \E fn \in DOMAIN trie_api :
       \E a \in ArgsOf(trie_api[fn].params) :
          CallStub(fn, a, trie_c(fn, a, mem))

(* ---- src/rope/rope.c ---- *)

\* the functions of rope.c: kind of the return value, and the parameters
rope_api ==
    [ rope_create |->
         [ret |-> "ptr", params |-> << >>],
      rope_create_from_array |->
         [ret |-> "ptr", params |-> [initial_elements |-> "ptr", count |-> "int"]],
      rope_destroy |->
         [ret |-> "void", params |-> [rope |-> "ptr"]],
      rope_get_length |->
         [ret |-> "int", params |-> [rope |-> "ptr"]],
      rope_get_element_at |->
         [ret |-> "int", params |-> [rope |-> "ptr", index |-> "int", success |-> "bool*"]],
      rope_concatenate |->
         [ret |-> "ptr", params |-> [r1 |-> "ptr", r2 |-> "ptr"]],
      rope_split |->
         [ret |-> "bool", params |-> [r |-> "ptr", k |-> "int", left_rope_ptr |-> "Rope**", right_rope_ptr |-> "Rope**"]],
      rope_print_debug |->
         [ret |-> "void", params |-> [rope |-> "ptr", mode |-> "int"]] ]

\* rope.c: what function fn returns and leaves in the caller's cells m when
\* called with arguments a
rope_c(fn, a, m) ==
    CASE fn = "rope_create" -> [ret |-> NULL, mem |-> m]
      [] fn = "rope_create_from_array" -> [ret |-> NULL, mem |-> m]
      [] fn = "rope_destroy" -> [ret |-> Void, mem |-> m]
      [] fn = "rope_get_length" -> [ret |-> 0, mem |-> m]
      [] fn = "rope_get_element_at" ->
            [ret |-> 0,
             mem |-> IF a.success # NULL THEN Store(m, a.success, FALSE) ELSE m]
      [] fn = "rope_concatenate" -> [ret |-> NULL, mem |-> m]
      [] fn = "rope_split" ->
            [ret |-> FALSE,
             mem |-> LET m1 == IF a.left_rope_ptr # NULL THEN Store(m, a.left_rope_ptr, NULL) ELSE m
                       IN  IF a.right_rope_ptr # NULL THEN Store(m1, a.right_rope_ptr, NULL) ELSE m1]
      [] fn = "rope_print_debug" -> [ret |-> Void, mem |-> m]

\* a call of a function of rope.c
Call_rope ==
    /\ Ready
    /\ \E fn \in DOMAIN rope_api :
       \E a \in ArgsOf(rope_api[fn].params) :
          CallStub(fn, a, rope_c(fn, a, mem))

(* ---- src/graph_adj_list/graph_adj_list.c ---- *)

\* the functions of graph_adj_list.c: kind of the return value, and the parameters
graph_adj_list_api ==
    [ graph_adj_list_create |->
         [ret |-> "ptr", params |-> [num_vertices |-> "int"]],
      graph_adj_list_destroy |->
         [ret |-> "void", params |-> [graph |-> "ptr"]],
      graph_adj_list_add_edge |->
         [ret |-> "bool", params |-> [graph |-> "ptr", src_vertex_id |-> "int", dest_vertex_id |-> "int"]],
      graph_adj_list_remove_edge |->
         [ret |-> "bool", params |-> [graph |-> "ptr", src_vertex_id |-> "int", dest_vertex_id |-> "int"]],
      graph_adj_list_has_edge |->
         [ret |-> "bool", params |-> [graph |-> "ptr", src_vertex_id |-> "int", dest_vertex_id |-> "int"]],
      graph_adj_list_get_num_vertices |->
         [ret |-> "int", params |-> [graph |-> "ptr"]],
      graph_adj_list_print |->
         [ret |-> "void", params |-> [graph |-> "ptr"]] ]

\* graph_adj_list.c: what function fn returns and leaves in the caller's cells m when
\* called with arguments a
graph_adj_list_c(fn, a, m) ==
    CASE fn = "graph_adj_list_create" -> [ret |-> NULL, mem |-> m]
      [] fn = "graph_adj_list_destroy" -> [ret |-> Void, mem |-> m]
      [] fn = "graph_adj_list_add_edge" -> [ret |-> FALSE, mem |-> m]
      [] fn = "graph_adj_list_remove_edge" -> [ret |-> FALSE, mem |-> m]
      [] fn = "graph_adj_list_has_edge" -> [ret |-> FALSE, mem |-> m]
      [] fn = "graph_adj_list_get_num_vertices" -> [ret |-> 0, mem |-> m]
      [] fn = "graph_adj_list_print" -> [ret |-> Void, mem |-> m]

\* a call of a function of graph_adj_list.c
Call_graph_adj_list ==
    /\ Ready
    /\ \E fn \in DOMAIN graph_adj_list_api :
       \E a \in ArgsOf(graph_adj_list_api[fn].params) :
          CallStub(fn, a, graph_adj_list_c(fn, a, mem))

(* ---- src/graph_adj_matrix/graph_adj_matrix.c ---- *)

\* the functions of graph_adj_matrix.c: kind of the return value, and the parameters
graph_adj_matrix_api ==
    [ graph_adj_matrix_create |->
         [ret |-> "ptr", params |-> [num_vertices |-> "int"]],
      graph_adj_matrix_destroy |->
         [ret |-> "void", params |-> [graph |-> "ptr"]],
      graph_adj_matrix_add_edge |->
         [ret |-> "bool", params |-> [graph |-> "ptr", v1_id |-> "int", v2_id |-> "int"]],
      graph_adj_matrix_remove_edge |->
         [ret |-> "bool", params |-> [graph |-> "ptr", v1_id |-> "int", v2_id |-> "int"]],
      graph_adj_matrix_has_edge |->
         [ret |-> "bool", params |-> [graph |-> "ptr", v1_id |-> "int", v2_id |-> "int"]],
      graph_adj_matrix_get_num_vertices |->
         [ret |-> "int", params |-> [graph |-> "ptr"]],
      graph_adj_matrix_print |->
         [ret |-> "void", params |-> [graph |-> "ptr"]] ]

\* graph_adj_matrix.c: what function fn returns and leaves in the caller's cells m when
\* called with arguments a
graph_adj_matrix_c(fn, a, m) ==
    CASE fn = "graph_adj_matrix_create" -> [ret |-> NULL, mem |-> m]
      [] fn = "graph_adj_matrix_destroy" -> [ret |-> Void, mem |-> m]
      [] fn = "graph_adj_matrix_add_edge" -> [ret |-> FALSE, mem |-> m]
      [] fn = "graph_adj_matrix_remove_edge" -> [ret |-> FALSE, mem |-> m]
      [] fn = "graph_adj_matrix_has_edge" -> [ret |-> FALSE, mem |-> m]
      [] fn = "graph_adj_matrix_get_num_vertices" -> [ret |-> 0, mem |-> m]
      [] fn = "graph_adj_matrix_print" -> [ret |-> Void, mem |-> m]

\* a call of a function of graph_adj_matrix.c
Call_graph_adj_matrix ==
    /\ Ready
    /\ \E fn \in DOMAIN graph_adj_matrix_api :
       \E a \in ArgsOf(graph_adj_matrix_api[fn].params) :
          CallStub(fn, a, graph_adj_matrix_c(fn, a, mem))

(* ---- src/fenwick_tree/fenwick_tree.c ---- *)

\* the functions of fenwick_tree.c: kind of the return value, and the parameters
fenwick_tree_api ==
    [ fenwick_tree_create |->
         [ret |-> "ptr", params |-> [logical_size |-> "int"]],
      fenwick_tree_destroy |->
         [ret |-> "void", params |-> [ft |-> "ptr"]],
      fenwick_tree_update |->
         [ret |-> "bool", params |-> [ft |-> "ptr", index |-> "int", delta |-> "int"]],
      fenwick_tree_query_prefix_sum |->
         [ret |-> "int", params |-> [ft |-> "ptr", index |-> "int"]],
      fenwick_tree_query_range_sum |->
         [ret |-> "int", params |-> [ft |-> "ptr", range_start |-> "int", range_end |-> "int"]],
      fenwick_tree_get_size |->
         [ret |-> "int", params |-> [ft |-> "ptr"]],
      fenwick_tree_print_internal_array |->
         [ret |-> "void", params |-> [ft |-> "ptr"]] ]

\* fenwick_tree.c with fenwick_tree_query_prefix_sum answering from its arguments
fenwick_tree_c_counting(fn, a, m) ==
    CASE fn = "fenwick_tree_create" -> [ret |-> NULL, mem |-> m]
      [] fn = "fenwick_tree_destroy" -> [ret |-> Void, mem |-> m]
      [] fn = "fenwick_tree_update" -> [ret |-> FALSE, mem |-> m]
      [] fn = "fenwick_tree_query_prefix_sum" ->
            [ret |-> IF a.ft = NULL \/ a.index < 0 THEN 0 ELSE a.index + 1, mem |-> m]
      [] fn = "fenwick_tree_query_range_sum" -> [ret |-> 0, mem |-> m]
      [] fn = "fenwick_tree_get_size" -> [ret |-> 0, mem |-> m]
      [] fn = "fenwick_tree_print_internal_array" -> [ret |-> Void, mem |-> m]

\* fenwick_tree.c: what function fn returns and leaves in the caller's cells m when
\* called with arguments a
fenwick_tree_c(fn, a, m) ==
    CASE fn = "fenwick_tree_create" -> [ret |-> NULL, mem |-> m]
      [] fn = "fenwick_tree_destroy" -> [ret |-> Void, mem |-> m]
      [] fn = "fenwick_tree_update" -> [ret |-> FALSE, mem |-> m]
      [] fn = "fenwick_tree_query_prefix_sum" -> [ret |-> 0, mem |-> m]
      [] fn = "fenwick_tree_query_range_sum" -> [ret |-> 0, mem |-> m]
      [] fn = "fenwick_tree_get_size" -> [ret |-> 0, mem |-> m]
      [] fn = "fenwick_tree_print_internal_array" -> [ret |-> Void, mem |-> m]

\* a call of a function of fenwick_tree.c
Call_fenwick_tree ==
    /\ Ready
    /\ \E fn \in DOMAIN fenwick_tree_api :
       \E a \in ArgsOf(fenwick_tree_api[fn].params) :
          CallStub(fn, a, fenwick_tree_c(fn, a, mem))

(* ---- src/segment_tree/segment_tree.c ---- *)

\* the functions of segment_tree.c: kind of the return value, and the parameters
segment_tree_api ==
    [ segment_tree_build |->
         [ret |-> "ptr", params |-> [input_array |-> "ptr", array_size |-> "int"]],
      segment_tree_destroy |->
         [ret |-> "void", params |-> [st |-> "ptr"]],
      segment_tree_query_range_sum |->
         [ret |-> "int", params |-> [st |-> "ptr", query_left |-> "int", query_right |-> "int", success |-> "bool*"]],
      segment_tree_update_point |->
         [ret |-> "bool", params |-> [st |-> "ptr", array_index |-> "int", new_value |-> "int"]],
      segment_tree_get_original_size |->
         [ret |-> "int", params |-> [st |-> "ptr"]],
      segment_tree_print_internal_array |->
         [ret |-> "void", params |-> [st |-> "ptr"]] ]

\* segment_tree.c with segment_tree_build handing out a tree for a usable array
segment_tree_c_building(fn, a, m) ==
    CASE fn = "segment_tree_build" ->
            [ret |-> IF a.input_array # NULL /\ a.array_size > 0 THEN ForeignAddr ELSE NULL,
             mem |-> m]
      [] fn = "segment_tree_destroy" -> [ret |-> Void, mem |-> m]
      [] fn = "segment_tree_query_range_sum" ->
            [ret |-> 0,
             mem |-> IF a.success # NULL THEN Store(m, a.success, FALSE) ELSE m]
      [] fn = "segment_tree_update_point" -> [ret |-> FALSE, mem |-> m]
      [] fn = "segment_tree_get_original_size" -> [ret |-> 0, mem |-> m]
      [] fn = "segment_tree_print_internal_array" -> [ret |-> Void, mem |-> m]

\* segment_tree.c: what function fn returns and leaves in the caller's cells m when
\* called with arguments a
segment_tree_c(fn, a, m) ==
    CASE fn = "segment_tree_build" -> [ret |-> NULL, mem |-> m]
      [] fn = "segment_tree_destroy" -> [ret |-> Void, mem |-> m]
      [] fn = "segment_tree_query_range_sum" ->
            [ret |-> 0,
             mem |-> IF a.success # NULL THEN Store(m, a.success, FALSE) ELSE m]
      [] fn = "segment_tree_update_point" -> [ret |-> FALSE, mem |-> m]
      [] fn = "segment_tree_get_original_size" -> [ret |-> 0, mem |-> m]
      [] fn = "segment_tree_print_internal_array" -> [ret |-> Void, mem |-> m]

\* a call of a function of segment_tree.c
Call_segment_tree ==
    /\ Ready
    /\ \E fn \in DOMAIN segment_tree_api :
       \E a \in ArgsOf(segment_tree_api[fn].params) :
          CallStub(fn, a, segment_tree_c(fn, a, mem))

(* ---- src/skip_list/skip_list.c ---- *)

\* the functions of skip_list.c: kind of the return value, and the parameters
skip_list_api ==
    [ skip_list_create |->
         [ret |-> "ptr", params |-> << >>],
      skip_list_destroy |->
         [ret |-> "void", params |-> [sl |-> "ptr"]],
      skip_list_insert |->
         [ret |-> "bool", params |-> [sl |-> "ptr", value |-> "int"]],
      skip_list_contains |->
         [ret |-> "bool", params |-> [sl |-> "ptr", value |-> "int"]],
      skip_list_remove |->
         [ret |-> "bool", params |-> [sl |-> "ptr", value |-> "int"]],
      skip_list_size |->
         [ret |-> "int", params |-> [sl |-> "ptr"]],
      skip_list_is_empty |->
         [ret |-> "bool", params |-> [sl |-> "ptr"]],
      skip_list_print |->
         [ret |-> "void", params |-> [sl |-> "ptr"]] ]

\* skip_list.c: what function fn returns and leaves in the caller's cells m when
\* called with arguments a
skip_list_c(fn, a, m) ==
    CASE fn = "skip_list_create" -> [ret |-> NULL, mem |-> m]
      [] fn = "skip_list_destroy" -> [ret |-> Void, mem |-> m]
      [] fn = "skip_list_insert" -> [ret |-> FALSE, mem |-> m]
      [] fn = "skip_list_contains" -> [ret |-> FALSE, mem |-> m]
      [] fn = "skip_list_remove" -> [ret |-> FALSE, mem |-> m]
      [] fn = "skip_list_size" -> [ret |-> 0, mem |-> m]
      [] fn = "skip_list_is_empty" -> [ret |-> TRUE, mem |-> m]
      [] fn = "skip_list_print" -> [ret |-> Void, mem |-> m]

\* a call of a function of skip_list.c
Call_skip_list ==
    /\ Ready
    /\ \E fn \in DOMAIN skip_list_api :
       \E a \in ArgsOf(skip_list_api[fn].params) :
          CallStub(fn, a, skip_list_c(fn, a, mem))

(* ---- the functions by return type ---- *)

\* every function of the data-structure modules
Api ==
    vector_api @@ stack_api @@ queue_api @@ deque_api @@ sll_api @@ dll_api @@
    hash_set_api @@ bst_api @@ avl_tree_api @@ rbt_api @@ binary_heap_api @@ dsu_api
    @@ trie_api @@ rope_api @@ graph_adj_list_api @@ graph_adj_matrix_api @@
    fenwick_tree_api @@ segment_tree_api @@ skip_list_api

\* every function except vector_create is a stub
StubFns == DOMAIN Api \ {"vector_create"}
\* stub functions that return a pointer to a structure
Creators == {fn \in StubFns : Api[fn].ret = "ptr"}
\* stub functions that return bool
BoolFns == {fn \in StubFns : Api[fn].ret = "bool"}
\* stub functions that return int
IntFns == {fn \in StubFns : Api[fn].ret = "int"}
\* stub functions that return nothing
VoidFns == {fn \in StubFns : Api[fn].ret = "void"}
\* stub functions that take a bool* success out-parameter
SuccessFns == {fn \in StubFns : "success" \in DOMAIN Api[fn].params}

(* ---- the system ---- *)

InitBlocks == [a \in Addr |-> FreeBlock]

\* the caller's out cells are locals it has not necessarily initialised
InitMems ==
    {[cells |-> (SuccessAddr :> f) @@ (LeftAddr :> l) @@ (RightAddr :> r), fault |-> FALSE] :
        f \in BOOLEAN, l \in Ptrs, r \in Ptrs}

\* control is at the first statement of main; every local is yet to be assigned
MainEntry ==
    [fn |-> "main", pc |-> 1, started |-> << >>, returned |-> << >>,
     status |-> Void, at |-> 0, caller |-> << >>, test |-> 0, calls |-> << >>,
     loc |-> [my_vec |-> NULL, zero_cap_vec |-> NULL, neg_cap_vec |-> NULL,
              item_val |-> 0, current_size_vec |-> 0, t |-> 0, obj |-> NULL,
              vec |-> NULL, i |-> 0, n |-> 0]]

Init ==
    /\ blocks = InitBlocks
    /\ vecs = {}
    /\ created = << >>
    /\ mem \in InitMems
    /\ last = NoCall
    /\ run = MainEntry

\* the client is done with the result of its latest call (test.c prints it and
\* goes on to its next statement)
Client_Next ==
    /\ ~Ready
    /\ last' = NoCall
    /\ UNCHANGED <<blocks, vecs, created, mem, run>>

Next ==
    \/ Client_Next
    \/ Call_vector_create
    \/ Call_vector_destroy
    \/ Call_vector_size
    \/ Call_vector_capacity
    \/ Call_vector_is_empty
    \/ Call_vector_push_back
    \/ Call_vector_get_item
    \/ Call_vector_set_item
    \/ Call_vector_insert_item
    \/ Call_vector_pop_back
    \/ Call_vector_remove_item
    \/ Call_vector_clear
    \/ Call_vector_reserve
    \/ Call_vector_shrink_to_fit
    \/ Call_stack
    \/ Call_queue
    \/ Call_deque
    \/ Call_sll
    \/ Call_dll
    \/ Call_hash_set
    \/ Call_bst
    \/ Call_avl_tree
    \/ Call_rbt
    \/ Call_binary_heap
    \/ Call_dsu
    \/ Call_trie
    \/ Call_rope
    \/ Call_graph_adj_list
    \/ Call_graph_adj_matrix
    \/ Call_fenwick_tree
    \/ Call_segment_tree
    \/ Call_skip_list

Spec == Init /\ [][Next]_vars

(* ---- src/test.c: main and the test suites ---- *)

\* the cell of print_vector_status's local success_get
SuccessGetAddr == MaxAddr + 5

\* the test functions main calls, in the order of its statements
\* main calling test_stack before test_singly_linked_list
main_calls_swapped ==
    <<"test_vector", "test_stack", "test_singly_linked_list", "test_queue",
      "test_doubly_linked_list", "test_hash_set", "test_binary_search_tree",
      "test_rope", "test_deque", "test_binary_heap", "test_disjoint_set_union",
      "test_trie", "test_graph_adj_list", "test_graph_adj_matrix",
      "test_fenwick_tree", "test_segment_tree", "test_skip_list", "test_avl_tree",
      "test_red_black_tree">>

main_calls ==
    <<"test_vector", "test_singly_linked_list", "test_stack", "test_queue",
      "test_doubly_linked_list", "test_hash_set", "test_binary_search_tree",
      "test_rope", "test_deque", "test_binary_heap", "test_disjoint_set_union",
      "test_trie", "test_graph_adj_list", "test_graph_adj_matrix",
      "test_fenwick_tree", "test_segment_tree", "test_skip_list", "test_avl_tree",
      "test_red_black_tree">>

\* The statements of a test function that call the modules or decide what runs
\* next, in the order of the source (printf calls change nothing here):
\*   Call       dst = fn(args); dst is a local, "success_op", or "" for no use
\*   Status     print_vector_status(vec, label)
\*   ReturnIf   if (cond) return;
\*   SkipUnless if (cond) { the next n statements }
\*   Skip       the end of a then-branch: pass over the n statements of the else
\*   Goto       the end of a loop body: back to statement number to
\*   Assign     dst = val;
\*   Rest       the statements that follow a creation that gave a structure
\*   Test       printf("\n[Test k: ...]\n"): the suite announces its test step k
Call(line, fn, a, dst) == [op |-> "call", line |-> line, fn |-> fn, args |-> a, dst |-> dst]
Status(line, vec) == [op |-> "status", line |-> line, vec |-> vec]
ReturnIf(line, cond) == [op |-> "return_if", line |-> line, cond |-> cond]
SkipUnless(line, cond, n) == [op |-> "skip_unless", line |-> line, cond |-> cond, n |-> n]
Skip(line, n) == [op |-> "skip", line |-> line, n |-> n]
Goto(line, to) == [op |-> "goto", line |-> line, to |-> to]
Assign(line, dst, val) == [op |-> "assign", line |-> line, dst |-> dst, val |-> val]
Rest(line) == [op |-> "rest", line |-> line]
Test(line, k) == [op |-> "test", line |-> line, k |-> k]

\* what a function of vector.c other than vector_create returns and leaves behind
vector_c(fn, a, b, m) ==
    CASE fn = "vector_destroy" -> [ret |-> Void, blocks |-> vector_destroy(b, a.vec).blocks, mem |-> m]
      [] fn = "vector_size" -> [ret |-> vector_size(a.vec), blocks |-> b, mem |-> m]
      [] fn = "vector_capacity" -> [ret |-> vector_capacity(a.vec), blocks |-> b, mem |-> m]
      [] fn = "vector_is_empty" -> [ret |-> vector_is_empty(a.vec), blocks |-> b, mem |-> m]
      [] fn = "vector_push_back" ->
            LET res == vector_push_back(b, a.vec, a.item) IN
            [ret |-> res.ret, blocks |-> res.blocks, mem |-> m]
      [] fn = "vector_get_item" ->
            LET res == vector_get_item(a.vec, a.index, a.success, m) IN
            [ret |-> res.ret, blocks |-> b, mem |-> res.mem]
      [] fn = "vector_set_item" ->
            LET res == vector_set_item(b, a.vec, a.index, a.item) IN
            [ret |-> res.ret, blocks |-> res.blocks, mem |-> m]
      [] fn = "vector_insert_item" ->
            LET res == vector_insert_item(b, a.vec, a.index, a.item) IN
            [ret |-> res.ret, blocks |-> res.blocks, mem |-> m]
      [] fn = "vector_pop_back" -> vector_pop_back(b, a.vec, a.success, m)
      [] fn = "vector_remove_item" ->
            LET res == vector_remove_item(b, a.vec, a.index) IN
            [ret |-> res.ret, blocks |-> res.blocks, mem |-> m]
      [] fn = "vector_clear" -> [ret |-> Void, blocks |-> vector_clear(b, a.vec).blocks, mem |-> m]
      [] fn = "vector_reserve" ->
            LET res == vector_reserve(b, a.vec, a.new_capacity) IN
            [ret |-> res.ret, blocks |-> res.blocks, mem |-> m]
      [] fn = "vector_shrink_to_fit" ->
            LET res == vector_shrink_to_fit(b, a.vec) IN
            [ret |-> res.ret, blocks |-> res.blocks, mem |-> m]

\* what a function of one of the other modules returns and leaves behind
stub_c(fn, a, m) ==
    CASE fn \in DOMAIN stack_api -> stack_c(fn, a, m)
      [] fn \in DOMAIN queue_api -> queue_c(fn, a, m)
      [] fn \in DOMAIN deque_api -> deque_c(fn, a, m)
      [] fn \in DOMAIN sll_api -> sll_c(fn, a, m)
      [] fn \in DOMAIN dll_api -> dll_c(fn, a, m)
      [] fn \in DOMAIN hash_set_api -> hash_set_c(fn, a, m)
      [] fn \in DOMAIN bst_api -> bst_c(fn, a, m)
      [] fn \in DOMAIN avl_tree_api -> avl_tree_c(fn, a, m)
      [] fn \in DOMAIN rbt_api -> rbt_c(fn, a, m)
      [] fn \in DOMAIN binary_heap_api -> binary_heap_c(fn, a, m)
      [] fn \in DOMAIN dsu_api -> dsu_c(fn, a, m)
      [] fn \in DOMAIN trie_api -> trie_c(fn, a, m)
      [] fn \in DOMAIN rope_api -> rope_c(fn, a, m)
      [] fn \in DOMAIN graph_adj_list_api -> graph_adj_list_c(fn, a, m)
      [] fn \in DOMAIN graph_adj_matrix_api -> graph_adj_matrix_c(fn, a, m)
      [] fn \in DOMAIN fenwick_tree_api -> fenwick_tree_c(fn, a, m)
      [] fn \in DOMAIN segment_tree_api -> segment_tree_c(fn, a, m)
      [] fn \in DOMAIN skip_list_api -> skip_list_c(fn, a, m)

\* the call fn(a) as the linked program resolves it
api_c(fn, a, b, m) ==
    IF fn \in DOMAIN vector_api
    THEN vector_c(fn, a, b, m)
    ELSE LET res == stub_c(fn, a, m) IN
         [ret |-> res.ret, blocks |-> b, mem |-> res.mem]

\* control moves to statement number pc of the running function
Jump(pc) ==
    /\ run' = [run EXCEPT !.pc = pc]
    /\ UNCHANGED <<blocks, vecs, created, mem, last>>

\* the running function returns: print_vector_status to the statement after its
\* call, giving up its local success_get; a test function to main
Return ==
    IF run.fn = "print_vector_status"
    THEN /\ run' = [run EXCEPT !.fn = run.caller.fn, !.pc = run.caller.pc,
                               !.caller = << >>]
         /\ mem' = [mem EXCEPT !.cells =
                       [p \in DOMAIN mem.cells \ {SuccessGetAddr} |-> mem.cells[p]]]
         /\ UNCHANGED <<blocks, vecs, created, last>>
    ELSE /\ run' = [run EXCEPT !.fn = "main", !.pc = run.at + 1,
                               !.returned = Append(@, run.fn)]
         /\ UNCHANGED <<blocks, vecs, created, mem, last>>

\* the call statement ins: the result goes to the local ins.dst; success_op is
\* the local whose address the suites pass as success
DoCall(ins) ==
    LET res == api_c(ins.fn, ins.args, blocks, mem) IN
    /\ last' = [fn |-> ins.fn, args |-> ins.args, ret |-> res.ret, pre |-> mem]
    /\ blocks' = res.blocks
    /\ mem' = IF ins.dst = "success_op" THEN Store(res.mem, SuccessAddr, res.ret)
              ELSE res.mem
    /\ run' = [run EXCEPT !.pc = @ + 1, !.calls = Append(@, ins.fn),
                          !.loc = IF ins.dst \in DOMAIN @
                                  THEN [@ EXCEPT ![ins.dst] = res.ret] ELSE @]
    /\ UNCHANGED <<vecs, created>>

\* one statement of the running function, whose statements are code; a function
\* returns at its end. Nothing is modelled of the statements at Rest: a suite that
\* gets there stays there.
Exec(code) ==
    IF run.pc > Len(code) THEN Return
    ELSE LET ins == code[run.pc] IN
         CASE ins.op = "call" /\ ins.fn # "vector_create" -> DoCall(ins)
           [] ins.op = "return_if" -> IF ins.cond THEN Return ELSE Jump(run.pc + 1)
           [] ins.op = "skip_unless" ->
                 Jump(IF ins.cond THEN run.pc + 1 ELSE run.pc + 1 + ins.n)
           [] ins.op = "skip" -> Jump(run.pc + 1 + ins.n)
           [] ins.op = "goto" -> Jump(ins.to)
           [] ins.op = "assign" ->
                 /\ run' = [run EXCEPT !.pc = @ + 1, !.loc[ins.dst] = ins.val]
                 /\ UNCHANGED <<blocks, vecs, created, mem, last>>
           [] ins.op = "test" ->
                 /\ run' = [run EXCEPT !.pc = @ + 1, !.test = ins.k]
                 /\ UNCHANGED <<blocks, vecs, created, mem, last>>
           [] OTHER -> FALSE

\* the statement dst = vector_create(initial_capacity); c1 and c2 are what malloc
\* returns
ExecCreate(code) ==
    /\ run.pc <= Len(code)
    /\ code[run.pc].op = "call"
    /\ code[run.pc].fn = "vector_create"
    /\ \E c1 \in MallocChoices(blocks) :
       \E c2 \in MallocChoices(blocks) \ (IF c1 = NULL THEN {} ELSE {c1}) :
          LET ins == code[run.pc]
              res == vector_create(blocks, ins.args.initial_capacity, c1, c2)
          IN  /\ blocks' = res.blocks
              /\ vecs' = IF res.ret = NULL THEN vecs ELSE vecs \cup {res.ret}
              /\ created' = IF res.ret = NULL THEN created
                            ELSE (res.ret :> res.blocks[res.ret]) @@ created
              /\ last' = [fn |-> ins.fn, args |-> ins.args, ret |-> res.ret, pre |-> mem]
              /\ run' = [run EXCEPT !.pc = @ + 1, !.calls = Append(@, ins.fn),
                                    !.loc[ins.dst] = res.ret]
              /\ UNCHANGED mem

\* the statement print_vector_status(vec, label): control enters the function,
\* whose local success_get holds whatever the stack held
ExecStatus(code) ==
    /\ run.pc <= Len(code)
    /\ code[run.pc].op = "status"
    /\ \E g \in BOOLEAN :
          /\ mem' = [mem EXCEPT !.cells = (SuccessGetAddr :> g) @@ @]
          /\ run' = [run EXCEPT !.fn = "print_vector_status", !.pc = 1,
                                !.caller = [fn |-> run.fn, pc |-> run.pc + 1],
                                !.loc.vec = code[run.pc].vec, !.loc.i = 0, !.loc.n = 0]
          /\ UNCHANGED <<blocks, vecs, created, last>>

\* print_vector_status(vec, label)
print_vector_status_code ==
    LET vec == run.loc.vec
        i == run.loc.i
    IN  << ReturnIf(104, vec = NULL),
           Call(108, "vector_size", [vec |-> vec], ""),
           Call(109, "vector_capacity", [vec |-> vec], ""),
           Call(110, "vector_is_empty", [vec |-> vec], ""),
           Assign(113, "i", 0),
           Call(113, "vector_size", [vec |-> vec], "n"),
           SkipUnless(113, i < run.loc.n, 4),
           Call(114, "vector_get_item",
                [vec |-> vec, index |-> i, success |-> SuccessGetAddr], "item_val"),
           Call(120, "vector_size", [vec |-> vec], ""),
           Assign(113, "i", i + 1),
           Goto(113, 6) >>

print_vector_status ==
    /\ run.fn = "print_vector_status"
    /\ Exec(print_vector_status_code)

\* test_vector()
test_vector_code ==
    LET my_vec == run.loc.my_vec
        zero_cap_vec == run.loc.zero_cap_vec
        neg_cap_vec == run.loc.neg_cap_vec
        success_op == mem.cells[SuccessAddr]
        t == run.loc.t
    IN  << Test(132, 1),
           Call(133, "vector_create", [initial_capacity |-> 4], "my_vec"),
           ReturnIf(134, my_vec = NULL),
           Status(140, my_vec),
           Call(141, "vector_create", [initial_capacity |-> 0], "zero_cap_vec"),
           SkipUnless(142, zero_cap_vec # NULL, 2),
           Status(144, zero_cap_vec),
           Call(145, "vector_destroy", [vec |-> zero_cap_vec], ""),
           Call(149, "vector_create", [initial_capacity |-> -1], "neg_cap_vec"),
           SkipUnless(150, neg_cap_vec # NULL, 1),
           Call(154, "vector_destroy", [vec |-> neg_cap_vec], ""),
           Test(156, 2),
           Call(157, "vector_push_back", [vec |-> my_vec, item |-> 10], "success_op"),
           Call(158, "vector_push_back", [vec |-> my_vec, item |-> 20], "success_op"),
           Call(159, "vector_push_back", [vec |-> my_vec, item |-> 30], "success_op"),
           Status(160, my_vec),
           Test(161, 3),
           Call(162, "vector_push_back", [vec |-> my_vec, item |-> 40], "success_op"),
           Status(164, my_vec),
           Call(165, "vector_push_back", [vec |-> my_vec, item |-> 50], "success_op"),
           Status(167, my_vec),
           Test(168, 4),
           Call(169, "vector_get_item",
                [vec |-> my_vec, index |-> 1, success |-> SuccessAddr], "item_val"),
           Call(172, "vector_size", [vec |-> my_vec], "t"),
           Call(172, "vector_get_item",
                [vec |-> my_vec, index |-> t - 1, success |-> SuccessAddr], "item_val"),
           SkipUnless(173, success_op, 1),
           Call(173, "vector_size", [vec |-> my_vec], "t"),
           Call(175, "vector_get_item",
                [vec |-> my_vec, index |-> 10, success |-> SuccessAddr], "item_val"),
           Test(178, 5),
           Call(179, "vector_set_item", [vec |-> my_vec, index |-> 0, item |-> 100], "success_op"),
           Status(182, my_vec),
           Call(183, "vector_set_item", [vec |-> my_vec, index |-> 10, item |-> 999], "success_op"),
           Test(186, 6),
           Call(187, "vector_insert_item", [vec |-> my_vec, index |-> 2, item |-> 250], "success_op"),
           Status(190, my_vec),
           Call(191, "vector_insert_item", [vec |-> my_vec, index |-> 0, item |-> 5], "success_op"),
           Status(194, my_vec),
           Call(195, "vector_size", [vec |-> my_vec], "current_size_vec"),
           Call(196, "vector_insert_item",
                [vec |-> my_vec, index |-> run.loc.current_size_vec, item |-> 600], "success_op"),
           Status(199, my_vec),
           Call(200, "vector_size", [vec |-> my_vec], "t"),
           Call(200, "vector_insert_item",
                [vec |-> my_vec, index |-> t + 1, item |-> 999], "success_op"),
           Test(203, 7),
           Call(204, "vector_pop_back", [vec |-> my_vec, success |-> SuccessAddr], "item_val"),
           Status(207, my_vec),
           Test(208, 8),
           Call(209, "vector_remove_item", [vec |-> my_vec, index |-> 1], "success_op"),
           Status(212, my_vec),
           Call(213, "vector_remove_item", [vec |-> my_vec, index |-> 0], "success_op"),
           Status(216, my_vec),
           Call(217, "vector_size", [vec |-> my_vec], "t"),
           Call(217, "vector_remove_item", [vec |-> my_vec, index |-> t - 1], "success_op"),
           Status(220, my_vec),
           Call(221, "vector_remove_item", [vec |-> my_vec, index |-> 10], "success_op"),
           Test(224, 9),
           Call(225, "vector_capacity", [vec |-> my_vec], ""),
           Call(226, "vector_reserve", [vec |-> my_vec, new_capacity |-> 20], "success_op"),
           SkipUnless(227, success_op, 1),
           Call(227, "vector_capacity", [vec |-> my_vec], ""),
           Status(229, my_vec),
           Call(230, "vector_reserve", [vec |-> my_vec, new_capacity |-> 10], "success_op"),
           SkipUnless(231, success_op, 1),
           Call(231, "vector_capacity", [vec |-> my_vec], ""),
           Call(233, "vector_reserve", [vec |-> my_vec, new_capacity |-> 1], "success_op"),
           SkipUnless(234, ~success_op, 2),
           Call(234, "vector_capacity", [vec |-> my_vec], ""),
           Skip(234, 1),
           Call(235, "vector_capacity", [vec |-> my_vec], ""),
           Test(236, 10),
           Call(237, "vector_size", [vec |-> my_vec], "t"),
           Call(237, "vector_reserve", [vec |-> my_vec, new_capacity |-> t + 10], ""),
           Status(238, my_vec),
           Call(239, "vector_shrink_to_fit", [vec |-> my_vec], "success_op"),
           Status(242, my_vec),
           Test(243, 11),
           Call(244, "vector_clear", [vec |-> my_vec], ""),
           Status(245, my_vec),
           Test(246, 12),
           Call(247, "vector_pop_back", [vec |-> my_vec, success |-> SuccessAddr], "item_val"),
           Call(250, "vector_push_back", [vec |-> my_vec, item |-> 777], "success_op"),
           Status(252, my_vec),
           Test(253, 13),
           Call(254, "vector_clear", [vec |-> my_vec], ""),
           Status(255, my_vec),
           Call(256, "vector_shrink_to_fit", [vec |-> my_vec], "success_op"),
           Status(259, my_vec),
           Test(260, 14),
           Call(261, "vector_destroy", [vec |-> my_vec], ""),
           Assign(262, "my_vec", NULL),
           Call(264, "vector_destroy", [vec |-> NULL], "") >>

test_vector ==
    /\ run.fn = "test_vector"
    /\ \/ ExecCreate(test_vector_code)
       \/ ExecStatus(test_vector_code)
       \/ Exec(test_vector_code)

\* test_singly_linked_list(): the suite stops when its creation gives NULL
test_singly_linked_list ==
    /\ run.fn = "test_singly_linked_list"
    /\ Exec(<< Test(292, 1),
               Call(293, "sll_create", << >>, "obj"),
               ReturnIf(294, run.loc.obj = NULL),
               Rest(300) >>)

\* test_stack(): the suite stops when its creation gives NULL
test_stack ==
    /\ run.fn = "test_stack"
    /\ Exec(<< Test(434, 1),
               Call(435, "stack_create", [initial_capacity |-> 2], "obj"),
               ReturnIf(436, run.loc.obj = NULL),
               Rest(442) >>)

\* test_queue(): the suite stops when its creation gives NULL
test_queue ==
    /\ run.fn = "test_queue"
    /\ Exec(<< Test(562, 1),
               Call(563, "queue_create", [initial_capacity |-> 3], "obj"),
               ReturnIf(564, run.loc.obj = NULL),
               Rest(570) >>)

\* test_doubly_linked_list(): the suite stops when its creation gives NULL
test_doubly_linked_list ==
    /\ run.fn = "test_doubly_linked_list"
    /\ Exec(<< Test(721, 1),
               Call(722, "dll_create", << >>, "obj"),
               ReturnIf(723, run.loc.obj = NULL),
               Rest(729) >>)

\* test_hash_set(): the suite stops when its creation gives NULL
test_hash_set ==
    /\ run.fn = "test_hash_set"
    /\ Exec(<< Test(865, 1),
               Call(866, "hash_set_create", [initial_table_capacity |-> 5], "obj"),
               ReturnIf(867, run.loc.obj = NULL),
               Rest(873) >>)

\* test_binary_search_tree(): the suite stops when its creation gives NULL
test_binary_search_tree ==
    /\ run.fn = "test_binary_search_tree"
    /\ Exec(<< Test(998, 1),
               Call(999, "bst_create", << >>, "obj"),
               ReturnIf(1000, run.loc.obj = NULL),
               Rest(1006) >>)

\* test_rope(): the suite stops when its creation gives NULL
test_rope ==
    /\ run.fn = "test_rope"
    /\ Exec(<< Test(1133, 1),
               Call(1134, "rope_create", << >>, "obj"),
               ReturnIf(1135, run.loc.obj = NULL),
               Rest(1137) >>)

\* test_deque(): the suite stops when its creation gives NULL
test_deque ==
    /\ run.fn = "test_deque"
    /\ Exec(<< Test(1273, 1),
               Call(1274, "deque_create", [initial_capacity |-> 3], "obj"),
               ReturnIf(1275, run.loc.obj = NULL),
               Rest(1281) >>)

\* test_binary_heap(): the suite stops when its creation gives NULL
test_binary_heap ==
    /\ run.fn = "test_binary_heap"
    /\ Exec(<< Test(1403, 1),
               Call(1404, "binary_heap_create", [initial_capacity |-> 5], "obj"),
               ReturnIf(1405, run.loc.obj = NULL),
               Rest(1411) >>)

\* test_disjoint_set_union(): the suite stops when its creation gives NULL
test_disjoint_set_union ==
    /\ run.fn = "test_disjoint_set_union"
    /\ Exec(<< Test(1522, 1),
               Call(1523, "dsu_create", [num_elements |-> 10], "obj"),
               ReturnIf(1524, run.loc.obj = NULL),
               Rest(1530) >>)

\* test_trie(): the suite stops when its creation gives NULL; what the test of a
\* field of the structure decides is part of Rest
test_trie ==
    /\ run.fn = "test_trie"
    /\ Exec(<< Test(1627, 1),
               Call(1628, "trie_create", << >>, "obj"),
               ReturnIf(1629, run.loc.obj = NULL),
               Rest(1636) >>)

\* test_graph_adj_list(): the suite stops when its creation gives NULL
test_graph_adj_list ==
    /\ run.fn = "test_graph_adj_list"
    /\ Exec(<< Test(1728, 1),
               Call(1729, "graph_adj_list_create", [num_vertices |-> 6], "obj"),
               ReturnIf(1730, run.loc.obj = NULL),
               Rest(1736) >>)

\* test_graph_adj_matrix(): the suite stops when its creation gives NULL
test_graph_adj_matrix ==
    /\ run.fn = "test_graph_adj_matrix"
    /\ Exec(<< Test(1804, 1),
               Call(1805, "graph_adj_matrix_create", [num_vertices |-> 5], "obj"),
               ReturnIf(1806, run.loc.obj = NULL),
               Rest(1812) >>)

\* test_fenwick_tree(): the suite stops when its creation gives NULL
test_fenwick_tree ==
    /\ run.fn = "test_fenwick_tree"
    /\ Exec(<< Test(1889, 1),
               Call(1890, "fenwick_tree_create", [logical_size |-> 10], "obj"),
               ReturnIf(1891, run.loc.obj = NULL),
               Rest(1897) >>)

\* test_segment_tree(): the suite stops when its creation gives NULL
test_segment_tree ==
    /\ run.fn = "test_segment_tree"
    /\ Exec(<< Test(1995, 1),
               Call(1996, "segment_tree_build", [input_array |-> ForeignAddr, array_size |-> 6], "obj"),
               ReturnIf(1997, run.loc.obj = NULL),
               Rest(2003) >>)

\* test_skip_list(): the suite stops when its creation gives NULL; what the test of a
\* field of the structure decides is part of Rest
test_skip_list ==
    /\ run.fn = "test_skip_list"
    /\ Exec(<< Test(2077, 1),
               Call(2078, "skip_list_create", << >>, "obj"),
               ReturnIf(2079, run.loc.obj = NULL),
               Rest(2086) >>)

\* test_avl_tree(): the suite stops when its creation gives NULL
test_avl_tree ==
    /\ run.fn = "test_avl_tree"
    /\ Exec(<< Test(2179, 1),
               Call(2180, "avl_tree_create", << >>, "obj"),
               ReturnIf(2181, run.loc.obj = NULL),
               Rest(2187) >>)

\* test_red_black_tree(): the suite stops when its creation gives NULL; what the test of a
\* field of the structure decides is part of Rest
test_red_black_tree ==
    /\ run.fn = "test_red_black_tree"
    /\ Exec(<< Test(2287, 1),
               Call(2288, "rbt_create", << >>, "obj"),
               ReturnIf(2289, run.loc.obj = NULL),
               Rest(2296) >>)

\* main calls its next test function
main_call ==
    /\ run.fn = "main"
    /\ run.pc <= Len(main_calls)
    /\ run' = [run EXCEPT !.fn = main_calls[run.pc], !.pc = 1, !.at = run.pc,
                          !.test = 0, !.calls = << >>,
                          !.started = Append(@, main_calls[run.pc])]
    /\ UNCHANGED <<blocks, vecs, created, mem, last>>

\* main returns 0 after its last call
main_return ==
    /\ run.fn = "main"
    /\ run.pc = Len(main_calls) + 1
    /\ run' = [run EXCEPT !.fn = "exit", !.status = 0]
    /\ UNCHANGED <<blocks, vecs, created, mem, last>>

\* a run of the test program
NextMain ==
    \/ main_call
    \/ test_vector
    \/ print_vector_status
    \/ test_singly_linked_list
    \/ test_stack
    \/ test_queue
    \/ test_doubly_linked_list
    \/ test_hash_set
    \/ test_binary_search_tree
    \/ test_rope
    \/ test_deque
    \/ test_binary_heap
    \/ test_disjoint_set_union
    \/ test_trie
    \/ test_graph_adj_list
    \/ test_graph_adj_matrix
    \/ test_fenwick_tree
    \/ test_segment_tree
    \/ test_skip_list
    \/ test_avl_tree
    \/ test_red_black_tree
    \/ main_return

\* the program runs on its own thread: while it has a statement to run, it runs it
SpecMain == Init /\ [][NextMain]_vars /\ WF_vars(NextMain)

(* ---- properties ---- *)

\* the bool-returning functions that only inspect: is_empty, contains, has_edge,
\* are_in_same_set
BoolQueries ==
    {"vector_is_empty", "stack_is_empty", "queue_is_empty", "deque_is_empty",
     "sll_is_empty", "sll_contains", "dll_is_empty", "dll_contains", "hash_set_contains",
     "hash_set_is_empty", "bst_contains", "bst_is_empty", "avl_tree_contains",
     "avl_tree_is_empty", "rbt_contains", "rbt_is_empty", "binary_heap_is_empty",
     "dsu_are_in_same_set", "trie_contains", "graph_adj_list_has_edge",
     "graph_adj_matrix_has_edge", "skip_list_contains", "skip_list_is_empty"}
BoolMutators == BoolFns \ BoolQueries

HeightQueries == {"bst_height", "avl_tree_get_height"}

\* C3 as stated: every int-returning query returns 0, except the height
\* queries, which return -1.
C3_Original ==
    last.fn \in IntFns => last.ret = IF last.fn \in HeightQueries THEN -1 ELSE 0

\* C3 amended: every int-returning function returns 0, except bst_height,
\* avl_tree_get_height and dsu_find, which return -1.
C3_IntQueriesReturnZero ==
    last.fn \in IntFns =>
        last.ret = IF last.fn \in HeightQueries \cup {"dsu_find"} THEN -1 ELSE 0

\* C3 witness: dsu_find was called
C3_Witness ==
    /\ last.fn = "dsu_find"
    /\ last.args.dsu # NULL
    /\ last.args.element_id >= 0

\* C4: a function with a bool* success parameter returns 0; with a non-NULL
\* success it stores false there and touches nothing else; with a NULL success it
\* stores nothing at all.
C4_SuccessFlagFalse ==
    last.fn \in SuccessFns =>
        /\ last.ret = 0
        /\ last.args.success # NULL =>
              mem = [last.pre EXCEPT !.cells[last.args.success] = FALSE]
        /\ last.args.success = NULL => mem = last.pre

\* C4 witness: the caller's flag was true before the call and success pointed at it
C4_Witness ==
    /\ last.fn \in SuccessFns
    /\ last.args.success = SuccessAddr
    /\ last.pre.cells[SuccessAddr] = TRUE
    /\ mem.cells[SuccessAddr] = FALSE

\* C5: vector_create with a negative initial_capacity returns NULL and calls
\* neither malloc nor free: the arena is as it was.
C5_NegativeCapacityReturnsNull ==
    (last.fn = "vector_create" /\ last.args.initial_capacity < 0) =>
        /\ last.ret = NULL
        /\ last.mallocs = 0
        /\ blocks = last.was

\* C5 witness: a negative capacity was asked for while memory was available
C5_Witness ==
    /\ last.fn = "vector_create"
    /\ last.args.initial_capacity < 0
    /\ FreeAddrs(blocks) # {}

\* C6: when initial_capacity n >= 0 and no malloc call fails, vector_create
\* returns a non-NULL vector with size 0, capacity n, and data NULL exactly when
\* n = 0 (otherwise data is a fresh block of n ints).
C6_CreateInitialisesFields ==
    (last.fn = "vector_create" /\ last.args.initial_capacity >= 0 /\ last.failed = {}) =>
        /\ last.ret # NULL
        /\ last.was[last.ret].kind = "free"
        /\ blocks[last.ret].kind = "Vector"
        /\ blocks[last.ret].size = 0
        /\ blocks[last.ret].capacity = last.args.initial_capacity
        /\ (blocks[last.ret].data = NULL) <=> (last.args.initial_capacity = 0)
        /\ blocks[last.ret].data # NULL =>
              /\ last.was[blocks[last.ret].data].kind = "free"
              /\ blocks[blocks[last.ret].data] = IntArray(last.args.initial_capacity)

\* C6 witness: a vector with a positive capacity was created
C6_Witness ==
    /\ last.fn = "vector_create"
    /\ last.args.initial_capacity > 0
    /\ last.ret # NULL

\* every allocated block is a vector the caller holds or the data array of one
NoOrphanBlocks ==
    \A a \in Addr :
        \/ blocks[a].kind = "free"
        \/ blocks[a].kind = "Vector" /\ a \in vecs
        \/ blocks[a].kind = "int[]" /\ \E v \in vecs : blocks[v].data = a

\* C7: when a malloc call inside vector_create fails the call returns NULL and
\* the arena is as it was before the call; after a failed first malloc nothing
\* else is allocated, after a failed second malloc the struct is freed.
C7_AllocationFailureLeavesNothing ==
    /\ NoOrphanBlocks
    /\ (last.fn = "vector_create" /\ last.failed # {}) =>
          /\ last.ret = NULL
          /\ blocks = last.was
          /\ 1 \in last.failed => (last.mallocs = 1 /\ last.frees = 0)
          /\ 2 \in last.failed => (last.mallocs = 2 /\ last.frees = 1)

\* C7 witness: the second malloc failed although an address was free for it
C7_Witness ==
    /\ last.fn = "vector_create"
    /\ 2 \in last.failed
    /\ Cardinality(FreeAddrs(last.was)) >= 2

\* the caller's cells before the reference invocation
RefMem ==
    [cells |-> (SuccessAddr :> TRUE) @@ (LeftAddr :> ForeignAddr) @@ (RightAddr :> ForeignAddr),
     fault |-> FALSE]

\* the arguments of the reference invocation: NULL for every structure pointer,
\* 0 for every int, the caller's cells for the outputs
RefArgs(params) ==
    [p \in DOMAIN params |->
        CASE params[p] = "int" -> 0
          [] params[p] = "bool*" -> SuccessAddr
          [] params[p] = "Rope**" -> IF p = "left_rope_ptr" THEN LeftAddr ELSE RightAddr
          [] OTHER -> NULL]

\* the reference invocation of stub fn, made in the initial state
RefCall(fn) ==
    LET a == RefArgs(Api[fn].params) IN
    CASE fn = "vector_destroy" -> vector_destroy(InitBlocks, a.vec)
      [] fn = "vector_size" -> [ret |-> vector_size(a.vec)]
      [] fn = "vector_capacity" -> [ret |-> vector_capacity(a.vec)]
      [] fn = "vector_is_empty" -> [ret |-> vector_is_empty(a.vec)]
      [] fn = "vector_push_back" -> vector_push_back(InitBlocks, a.vec, a.item)
      [] fn = "vector_get_item" -> vector_get_item(a.vec, a.index, a.success, RefMem)
      [] fn = "vector_set_item" -> vector_set_item(InitBlocks, a.vec, a.index, a.item)
      [] fn = "vector_insert_item" -> vector_insert_item(InitBlocks, a.vec, a.index, a.item)
      [] fn = "vector_pop_back" -> vector_pop_back(InitBlocks, a.vec, a.success, RefMem)
      [] fn = "vector_remove_item" -> vector_remove_item(InitBlocks, a.vec, a.index)
      [] fn = "vector_clear" -> vector_clear(InitBlocks, a.vec)
      [] fn = "vector_reserve" -> vector_reserve(InitBlocks, a.vec, a.new_capacity)
      [] fn = "vector_shrink_to_fit" -> vector_shrink_to_fit(InitBlocks, a.vec)
      [] fn \in DOMAIN stack_api -> stack_c(fn, a, RefMem)
      [] fn \in DOMAIN queue_api -> queue_c(fn, a, RefMem)
      [] fn \in DOMAIN deque_api -> deque_c(fn, a, RefMem)
      [] fn \in DOMAIN sll_api -> sll_c(fn, a, RefMem)
      [] fn \in DOMAIN dll_api -> dll_c(fn, a, RefMem)
      [] fn \in DOMAIN hash_set_api -> hash_set_c(fn, a, RefMem)
      [] fn \in DOMAIN bst_api -> bst_c(fn, a, RefMem)
      [] fn \in DOMAIN avl_tree_api -> avl_tree_c(fn, a, RefMem)
      [] fn \in DOMAIN rbt_api -> rbt_c(fn, a, RefMem)
      [] fn \in DOMAIN binary_heap_api -> binary_heap_c(fn, a, RefMem)
      [] fn \in DOMAIN dsu_api -> dsu_c(fn, a, RefMem)
      [] fn \in DOMAIN trie_api -> trie_c(fn, a, RefMem)
      [] fn \in DOMAIN rope_api -> rope_c(fn, a, RefMem)
      [] fn \in DOMAIN graph_adj_list_api -> graph_adj_list_c(fn, a, RefMem)
      [] fn \in DOMAIN graph_adj_matrix_api -> graph_adj_matrix_c(fn, a, RefMem)
      [] fn \in DOMAIN fenwick_tree_api -> fenwick_tree_c(fn, a, RefMem)
      [] fn \in DOMAIN segment_tree_api -> segment_tree_c(fn, a, RefMem)
      [] fn \in DOMAIN skip_list_api -> skip_list_c(fn, a, RefMem)

C10_CapacityAtLeastSize ==
    \A v \in vecs :
        /\ blocks[v].size >= 0
        /\ blocks[v].capacity >= blocks[v].size

\* C10 witness: vector_push_back was called on a vector with no room left
C10_Witness ==
    /\ last.fn = "vector_push_back"
    /\ last.args.vec \in vecs
    /\ blocks[last.args.vec].size = blocks[last.args.vec].capacity

\* C11 as stated: vector_capacity(vec) returns the capacity field of a vector
\* that vector_create returned, so vector_capacity(vector_create(n)) = n.
C11_CapacityReturnsCapacityField ==
    (last.fn = "vector_capacity" /\ last.args.vec \in vecs) =>
        last.ret = blocks[last.args.vec].capacity

\* C12: vector_size(vec) returns the size field of a vector that vector_create
\* returned, in every reachable state.
C12_SizeReturnsSizeField ==
    (last.fn = "vector_size" /\ last.args.vec \in vecs) =>
        last.ret = blocks[last.args.vec].size

\* C12 witness: vector_size was called on a vector with room for elements
C12_Witness ==
    /\ last.fn = "vector_size"
    /\ last.args.vec \in vecs
    /\ blocks[last.args.vec].capacity > 0

\* C13: vector_is_empty(vec) returns true when the size field is 0 and false
\* otherwise, in every reachable state.
C13_IsEmptyIffSizeZero ==
    (last.fn = "vector_is_empty" /\ last.args.vec \in vecs) =>
        last.ret = (blocks[last.args.vec].size = 0)

\* C13 witness: vector_is_empty was called on a vector with room for elements
C13_Witness ==
    /\ last.fn = "vector_is_empty"
    /\ last.args.vec \in vecs
    /\ blocks[last.args.vec].capacity > 0

\* C14 as stated: vector_push_back on a vector returns true unless an allocation
\* fails during a resize; when the vector is not full no resize is needed, so
\* the call returns true, the size grows by 1 and the item is the last element.
C14_PushBackSucceeds ==
    [][(/\ last'.fn = "vector_push_back"
        /\ last'.args.vec \in vecs
        /\ blocks[last'.args.vec].size < blocks[last'.args.vec].capacity)
       => (/\ last'.ret = TRUE
           /\ blocks'[last'.args.vec].size = blocks[last'.args.vec].size + 1)]_vars

\* the index is a position of an element of vector v
InRange(v, index) == 0 <= index /\ index <= blocks[v].size - 1

\* C15: vector_get_item(vec, index, &success) sets success to true exactly when
\* 0 <= index <= size - 1, and to false for every other index.
C15_GetItemSuccessIffInRange ==
    (/\ last.fn = "vector_get_item"
     /\ last.args.vec \in vecs
     /\ last.args.success # NULL)
    => (mem.cells[last.args.success] = InRange(last.args.vec, last.args.index))

\* C15 witness: item 0 was asked of a vector with room for it while the
\* caller's flag was true
C15_Witness ==
    /\ last.fn = "vector_get_item"
    /\ last.args.vec \in vecs
    /\ blocks[last.args.vec].capacity > 0
    /\ last.args.index = 0
    /\ last.args.success = SuccessAddr
    /\ last.pre.cells[SuccessAddr] = TRUE

\* C16: vector_set_item and vector_remove_item with an index outside
\* [0, size - 1], and vector_pop_back on an empty vector, report failure (return
\* false, or store false through a non-NULL success) and leave every vector and
\* data array as it was.
C16_InvalidRequestFailsUnchanged ==
    [][(/\ last'.fn \in {"vector_set_item", "vector_remove_item", "vector_pop_back"}
        /\ last'.args.vec \in vecs
        /\ IF last'.fn = "vector_pop_back"
           THEN blocks[last'.args.vec].size = 0
           ELSE ~InRange(last'.args.vec, last'.args.index))
       => (/\ blocks' = blocks
           /\ IF last'.fn = "vector_pop_back"
              THEN last'.args.success # NULL => mem'.cells[last'.args.success] = FALSE
              ELSE last'.ret = FALSE)]_vars

\* C16 witness: vector_set_item was called with index 0 on a vector that has
\* room for an element but holds none
C16_Witness ==
    /\ last.fn = "vector_set_item"
    /\ last.args.vec \in vecs
    /\ blocks[last.args.vec].capacity > 0
    /\ last.args.index = 0

\* C17: for every vector and item, vector_insert_item at index size returns
\* what vector_push_back returns and leaves the arena as vector_push_back does.
C17_InsertAtSizeIsPushBack ==
    \A v \in vecs, item \in Ints :
        LET ins == vector_insert_item(blocks, v, blocks[v].size, item)
            psh == vector_push_back(blocks, v, item)
        IN  ins.ret = psh.ret /\ ins.blocks = psh.blocks

\* C17 witness: vector_insert_item was called at index size on a vector with room
C17_Witness ==
    /\ last.fn = "vector_insert_item"
    /\ last.args.vec \in vecs
    /\ last.args.index = blocks[last.args.vec].size
    /\ blocks[last.args.vec].capacity > 0

\* C18 as stated: vector_reserve returns false when new_capacity is negative or
\* less than the size; it returns true when new_capacity is at least the size
\* and at most the capacity (no allocation is needed), leaving the vector as is.
C18_ReserveResult ==
    (last.fn = "vector_reserve" /\ last.args.vec \in vecs) =>
        LET v == last.args.vec
            n == last.args.new_capacity
        IN  /\ (n < 0 \/ n < blocks[v].size) => last.ret = FALSE
            /\ (n >= blocks[v].size /\ n >= 0 /\ n <= blocks[v].capacity) =>
                  (last.ret = TRUE /\ blocks[v] = created[v])

\* the creators that document a size argument that must not be negative
SizedCreators ==
    {"stack_create", "queue_create", "deque_create", "binary_heap_create",
     "dsu_create", "graph_adj_list_create", "graph_adj_matrix_create",
     "fenwick_tree_create"}

\* the latest call is a creation with an argument its documentation rejects
InvalidCreation ==
    \/ /\ last.fn \in SizedCreators
       /\ \E p \in DOMAIN last.args : last.args[p] < 0
    \/ /\ last.fn = "hash_set_create"
       /\ last.args.initial_table_capacity <= 0
    \/ /\ last.fn = "segment_tree_build"
       /\ \/ last.args.input_array = NULL /\ last.args.array_size > 0
          \/ last.args.array_size < 0

\* C19: a creation with an invalid argument (a negative size; a capacity <= 0
\* for hash_set_create; a NULL array with a positive size, or a negative size,
\* for segment_tree_build) returns NULL.
C19_InvalidCreationReturnsNull ==
    InvalidCreation => last.ret = NULL

\* C19 witness: hash_set_create was called with capacity 0
C19_Witness ==
    /\ last.fn = "hash_set_create"
    /\ last.args.initial_table_capacity = 0
    /\ InvalidCreation

\* s is the beginning of t
IsPrefix(s, t) == Len(s) <= Len(t) /\ s = SubSeq(t, 1, Len(s))

\* the suites in the order the claim gives: vector, singly linked list, stack,
\* queue, doubly linked list, hash set, BST, rope, deque, binary heap, DSU, trie,
\* graph adjacency list, graph adjacency matrix, Fenwick tree, segment tree, skip
\* list, AVL tree, red-black tree
SuiteOrder ==
    <<"test_vector", "test_singly_linked_list", "test_stack", "test_queue",
      "test_doubly_linked_list", "test_hash_set", "test_binary_search_tree",
      "test_rope", "test_deque", "test_binary_heap", "test_disjoint_set_union",
      "test_trie", "test_graph_adj_list", "test_graph_adj_matrix",
      "test_fenwick_tree", "test_segment_tree", "test_skip_list", "test_avl_tree",
      "test_red_black_tree">>

\* C20: at every moment the suites main has started are the first ones of the
\* fixed order, each once, and a suite is started only after the one before it
\* returned; eventually all 19 have been started and have returned, and main has
\* terminated with exit status 0.
C20_MainRunsSuitesInOrderAndExits ==
    /\ [](/\ IsPrefix(run.started, SuiteOrder)
          /\ IsPrefix(run.returned, run.started)
          /\ Len(run.started) <= Len(run.returned) + 1
          /\ IF run.fn = "exit" THEN run.status = 0 ELSE run.status = Void)
    /\ <>[](/\ run.fn = "exit"
            /\ run.status = 0
            /\ run.started = SuiteOrder
            /\ run.returned = SuiteOrder)

\* C20 witness: main has returned 0 after test_vector ran to its last statement
\* and the other 18 suites returned
C20_Witness ==
    /\ run.fn = "exit"
    /\ run.status = 0
    /\ Len(run.returned) = 19
    /\ last.fn = "rbt_create"
    /\ run.loc.my_vec = NULL
    /\ vecs # {}

\* main is in, or is back from, a suite other than test_vector
InOtherSuite == Len(run.started) >= 2

\* the suite main called last has returned
SuiteReturned == Len(run.returned) = Len(run.started)

\* a suite other than test_vector calls nothing but its creator, once, gets NULL,
\* never goes past its Test 1, and returns only after that call
OtherSuitesStopAtCreation ==
    InOtherSuite =>
        /\ Len(run.calls) <= 1
        /\ run.test <= 1
        /\ run.calls # << >> => (run.calls[1] \in Creators /\ run.loc.obj = NULL)
        /\ SuiteReturned => run.calls # << >>

\* C21 as stated: every suite other than test_vector returns right after its
\* first creation gives NULL, having called no other function, and test_vector
\* has gone through all 14 of its test steps when it returns.
C21_Original ==
    /\ OtherSuitesStopAtCreation
    /\ (Len(run.started) = 1 /\ SuiteReturned) => run.test = 14

\* C21 amended: every suite other than test_vector returns right after its first
\* creation gives NULL, having called no other function; test_vector has gone
\* through all 14 of its test steps when it returns if its vector_create(4) gave a
\* vector, and has returned in Test 1 after that one call if an allocation failed.
C21_SuitesStopAtCreationVectorRunsIfCreated ==
    /\ OtherSuitesStopAtCreation
    /\ (Len(run.started) = 1 /\ SuiteReturned) =>
          IF vecs = {}
          THEN run.test = 1 /\ run.calls = <<"vector_create">>
          ELSE run.test = 14

\* C21 witness: test_vector went through its 14 steps, and the last of the other
\* suites has returned after its creator gave NULL
C21_Witness ==
    /\ InOtherSuite
    /\ SuiteReturned
    /\ run.started[Len(run.started)] = "test_red_black_tree"
    /\ run.calls = <<"rbt_create">>
    /\ vecs # {}

====
